---- MODULE Spec2Model ----
(***************************************************************************)
(* FUN-ID OAuth 2.0 / OpenID Connect identity provider                     *)
(* (worker/src/oauth/*.ts, worker/src/utils/pkce.ts, utils/crypto.ts).     *)
(*                                                                         *)
(* Strings whose characters matter (PKCE verifiers and challenges) are     *)
(* sequences of one-character strings, <<>> being the absent one; an      *)
(* absent atomic string is "" (null, undefined and '' are all falsy in    *)
(* the handlers' `!x` tests).                                              *)
(* A scope string is the sequence of its space-separated words, which is   *)
(* exactly what String.split(' ') returns.                                 *)
(***************************************************************************)
EXTENDS Integers, Sequences, FiniteSets, TLC

\* ---------------------------------------------------------------- bounds
MaxTicks == 1
MaxRequests == 4
MaxSlots == 2
MaxGrantRequests == 3
MaxCallbackRequests == 3
MaxOrderRequests == 3
MaxEndpointRequests == 3
MaxKeyCalls == 3
MaxClears == 2
MaxPending == 1
MaxCleanups == 1

\* ------------------------------------------------------ program constants
ACCESS_TOKEN == 3600
ID_TOKEN == 3600
REFRESH_TOKEN == 2592000
AUTHORIZATION_CODE == 600
SUPPORTED_SCOPES == <<"openid", "profile", "email", "wallet">>
VerifierMinLen == 43
VerifierMaxLen == 128
ChallengeLen == 43
DigestLen == 32

Null == "null"

Range(s) == {s[i] : i \in DOMAIN s}

\* ------------------------------------------------------------- pkce.ts
Upper == {"A","B","C","D","E","F","G","H","I","J","K","L","M",
          "N","O","P","Q","R","S","T","U","V","W","X","Y","Z"}
Lower == {"a","b","c","d","e","f","g","h","i","j","k","l","m",
          "n","o","p","q","r","s","t","u","v","w","x","y","z"}
Digit == {"0","1","2","3","4","5","6","7","8","9"}

\* btoa's alphabet after .replace(/\+/g,'-').replace(/\//g,'_')
B64Alphabet ==
  <<"A","B","C","D","E","F","G","H","I","J","K","L","M",
    "N","O","P","Q","R","S","T","U","V","W","X","Y","Z",
    "a","b","c","d","e","f","g","h","i","j","k","l","m",
    "n","o","p","q","r","s","t","u","v","w","x","y","z",
    "0","1","2","3","4","5","6","7","8","9","-","_">>

ByteAt(buffer, i) == IF i \in DOMAIN buffer THEN buffer[i] ELSE 0

\* The k-th (0..3) base64 digit of the 3-byte group starting at buffer[g].
Sextet(buffer, g, k) ==
  LET b0 == ByteAt(buffer, g)
      b1 == ByteAt(buffer, g + 1)
      b2 == ByteAt(buffer, g + 2)
  IN  CASE k = 0 -> b0 \div 4
        [] k = 1 -> (b0 % 4) * 16 + (b1 \div 16)
        [] k = 2 -> (b1 % 16) * 4 + (b2 \div 64)
        [] OTHER -> b2 % 64

\* base64UrlEncode: btoa, '+' -> '-', '/' -> '_', trailing '=' removed.
base64UrlEncode(buffer) ==
  LET n == Len(buffer)
      rem == n % 3
      outLen == 4 * (n \div 3) + (IF rem = 0 THEN 0 ELSE rem + 1)
  IN  [j \in 1..outLen |->
         B64Alphabet[Sextet(buffer, 3 * ((j - 1) \div 4) + 1, (j - 1) % 4) + 1]]

\* The verifiers the model draws from.
VerifierA == [i \in 1..VerifierMinLen |-> "a"]
VerifierB == [i \in 1..VerifierMinLen |-> IF i = VerifierMinLen THEN "b" ELSE "a"]
VerifierShort == [i \in 1..(VerifierMinLen - 1) |-> "a"]
VerifierLong == [i \in 1..VerifierMaxLen |-> "Z"]
VerifierTooLong == [i \in 1..(VerifierMaxLen + 1) |-> "Z"]
VerifierBadChar == [i \in 1..VerifierMinLen |-> IF i = 1 THEN "!" ELSE "a"]
VerifierMixed ==
  [i \in 1..(VerifierMinLen + 1) |-> <<"-", ".", "_", "~", "Q", "z", "0", "9">>[(i % 8) + 1]]
VerifierPool ==
  <<VerifierA, VerifierB, VerifierShort, VerifierLong, VerifierTooLong, VerifierBadChar,
    VerifierMixed>>

\* crypto.subtle.digest('SHA-256', .): an injective function from the
\* messages of VerifierPool to 32-byte digests.
sha256(message) ==
  LET idx == CHOOSE i \in DOMAIN VerifierPool : VerifierPool[i] = message
  IN  [k \in 1..DigestLen |-> IF k = 1 THEN 4 * idx + 1 ELSE IF k = DigestLen THEN idx ELSE 0]

generateCodeChallenge(codeVerifier) == base64UrlEncode(sha256(codeVerifier))

\* A comparison of the lengths only.
secureCompareLengthOnly(a, b) == Len(a) = Len(b)

secureCompare(a, b) ==
  IF Len(a) # Len(b) THEN FALSE
  ELSE \A i \in 1..Len(a) : a[i] = b[i]

\* /^[A-Za-z0-9\-._~]{43,128}$/
VerifierFormatOk(codeVerifier) ==
  /\ Len(codeVerifier) >= VerifierMinLen
  /\ Len(codeVerifier) <= VerifierMaxLen
  /\ Range(codeVerifier) \subseteq (Upper \cup Lower \cup Digit \cup {"-", ".", "_", "~"})

\* A verification that looks at the method only.
verifyPKCEMethodOnly(codeVerifier, codeChallenge, method) == method = "S256"

verifyPKCE(codeVerifier, codeChallenge, method) ==
  IF method # "S256" THEN FALSE
  ELSE IF ~VerifierFormatOk(codeVerifier) THEN FALSE
  ELSE secureCompare(base64UrlEncode(sha256(codeVerifier)), codeChallenge)

\* A format test that accepts every challenge.
isValidCodeChallengeAny(codeChallenge) == TRUE

\* /^[A-Za-z0-9\-_]{43}$/
isValidCodeChallenge(codeChallenge) ==
  /\ Len(codeChallenge) = ChallengeLen
  /\ Range(codeChallenge) \subseteq (Upper \cup Lower \cup Digit \cup {"-", "_"})

ChallengeA == generateCodeChallenge(VerifierA)
ChallengeShort == SubSeq(ChallengeA, 1, ChallengeLen - 1)
ChallengeBadChar == [i \in 1..ChallengeLen |-> IF i = 1 THEN "=" ELSE ChallengeA[i]]

\* ------------------------------------------------------------ crypto.ts
\* A hash that keeps the token as it is.
hashTokenRaw(token) == token

\* base64url(SHA-256(token)): one-way and injective; the model keeps the
\* digest as a tagged value so that it never equals a raw token.
hashToken(token) == <<"sha256-b64", token>>

verifyTokenHash(token, hash) == hashToken(token) = hash

hashClientSecret(secret) == [prefix |-> "sha256:", hash |-> hashToken(secret)]

\* A verification that accepts every secret.
verifyClientSecretAny(secret, storedHash) == TRUE

verifyClientSecret(secret, storedHash) ==
  IF storedHash.prefix # "sha256:" THEN FALSE
  ELSE verifyTokenHash(secret, storedHash.hash)

\* ------------------------------------------------- registry and identity
RedirApp == "https://app.example/cb"
RedirAlt == "https://app.example/cb2"
RedirEvil == "https://evil.example/cb"
SecretConf == "s3cret"

\* oauth_clients rows (migration 20260129004622, section 5).
OAuthClients ==
  { [client_id |-> "pub", client_name |-> "Public SPA", is_active |-> TRUE,
     is_confidential |-> FALSE, redirect_uris |-> {RedirApp, RedirAlt},
     client_secret_hash |-> hashClientSecret("n/a")],
    [client_id |-> "conf", client_name |-> "Backend", is_active |-> TRUE,
     is_confidential |-> TRUE, redirect_uris |-> {RedirApp, RedirAlt},
     client_secret_hash |-> hashClientSecret(SecretConf)],
    [client_id |-> "off", client_name |-> "Retired", is_active |-> FALSE,
     is_confidential |-> FALSE, redirect_uris |-> {RedirApp},
     client_secret_hash |-> hashClientSecret("n/a")] }

\* A value-or-null is a sequence of at most one element (the `rows[0] || null`
\* of the database helpers): <<>> is null.
None == <<>>
Some(v) == <<v>>

\* A lookup that does not filter on is_active.
getClientInactiveToo(clientId, ok) ==
  LET rows == {c \in OAuthClients : c.client_id = clientId}
  IN  IF ok /\ rows # {} THEN Some(CHOOSE c \in rows : TRUE) ELSE None

\* getClient: ...?client_id=eq.<id>&is_active=eq.true ; a non-ok response
\* is null, like no row.
getClient(clientId, ok) ==
  LET rows == {c \in OAuthClients : c.client_id = clientId /\ c.is_active}
  IN  IF ok /\ rows # {} THEN Some(CHOOSE c \in rows : TRUE) ELSE None

Users == {"alice", "bob", "carol", "ghost"}

\* The Identity Store: profiles rows and auth.users e-mail addresses.
ProfileFull ==
  [display_name |-> "Alice", avatar_url |-> "https://img/alice.png",
   wallet_address |-> "0xA11CE", camly_balance |-> "7"]
ProfileBare ==
  [display_name |-> Null, avatar_url |-> Null,
   wallet_address |-> Null, camly_balance |-> Null]
ProfileZero ==
  [display_name |-> "", avatar_url |-> Null,
   wallet_address |-> "0xB0B", camly_balance |-> "0"]

\* profiles rows by id; "ghost" has none.
Profiles == [alice |-> ProfileFull, bob |-> ProfileZero, carol |-> ProfileBare]
\* auth.users e-mail addresses.
Emails == [alice |-> "alice@example.org", bob |-> "bob@example.org", carol |-> ""]

\* getUserProfile: ?id=eq.<userId> ; profiles[0] || null, null when not ok.
getUserProfile(userId, ok) ==
  IF ok /\ userId \in DOMAIN Profiles THEN Some(Profiles[userId]) ELSE None

\* getUserEmail: user.email || null, null when not ok.
getUserEmail(userId, ok) ==
  IF ok /\ userId \in DOMAIN Emails /\ Emails[userId] # "" THEN Emails[userId] ELSE Null

\* JavaScript truthiness of a string-or-null value.
Truthy(v) == v # Null /\ v # ""

\* --------------------------------------------------------------- scopes
\* validateScopes: split(' ').filter(Boolean), then keep the supported ones.
validateScopes(requestedScopes) ==
  SelectSeq(SelectSeq(requestedScopes, LAMBDA s : s # ""),
            LAMBDA s : s \in Range(SUPPORTED_SCOPES))

ScopeOpenid == <<"openid">>
ScopeAll == <<"openid", "profile", "email", "wallet">>
ScopeAdmin == <<"admin">>
ScopeMixed == <<"openid", "", "admin", "email">>

\* ------------------------------------------------- token.ts: claims, JWTs
\* generateTokens, lines 201-230: the ID token claims for a scope list.
idTokenClaims(userId, clientId, scopes, nonce, profile, email) ==
  LET has(s) == s \in Range(scopes)
      keys ==
        {"sub", "aud"}
        \cup (IF Truthy(nonce) THEN {"nonce"} ELSE {})
        \cup (IF has("profile") /\ profile # None /\ Truthy(profile[1].display_name)
              THEN {"name"} ELSE {})
        \cup (IF has("profile") /\ profile # None /\ Truthy(profile[1].avatar_url)
              THEN {"picture"} ELSE {})
        \cup (IF has("email") /\ Truthy(email) THEN {"email", "email_verified"} ELSE {})
        \cup (IF has("wallet") /\ profile # None /\ Truthy(profile[1].wallet_address)
              THEN {"wallet_address"} ELSE {})
        \cup (IF has("wallet") /\ profile # None /\ profile[1].camly_balance # Null
              THEN {"camly_balance"} ELSE {})
  IN  [k \in keys |->
         CASE k = "sub" -> userId
           [] k = "aud" -> clientId
           [] k = "nonce" -> nonce
           [] k = "name" -> profile[1].display_name
           [] k = "picture" -> profile[1].avatar_url
           [] k = "email" -> email
           [] k = "email_verified" -> "true"
           [] k = "wallet_address" -> profile[1].wallet_address
           [] OTHER -> profile[1].camly_balance]

\* A response gated on the profile record instead of the scope.
userInfoResponseUngated(userId, scopes, profile, email) ==
  IF profile # None /\ Truthy(profile[1].wallet_address)
  THEN [sub |-> userId, wallet_address |-> profile[1].wallet_address]
  ELSE [sub |-> userId]

\* userinfo.ts, lines 127-164: the response body for a verified payload.
userInfoResponse(userId, scopes, profile, email) ==
  LET has(s) == s \in Range(scopes)
      keys ==
        {"sub"}
        \cup (IF has("profile") /\ profile # None /\ Truthy(profile[1].display_name)
              THEN {"name"} ELSE {})
        \cup (IF has("profile") /\ profile # None /\ Truthy(profile[1].avatar_url)
              THEN {"picture"} ELSE {})
        \cup (IF has("email") /\ Truthy(email) THEN {"email"} ELSE {})
        \cup (IF has("wallet") /\ profile # None /\ Truthy(profile[1].wallet_address)
              THEN {"wallet_address"} ELSE {})
        \cup (IF has("wallet") /\ profile # None /\ profile[1].camly_balance # Null
              THEN {"camly_balance"} ELSE {})
  IN  [k \in keys |->
         CASE k = "sub" -> userId
           [] k = "name" -> profile[1].display_name
           [] k = "picture" -> profile[1].avatar_url
           [] k = "email" -> email
           [] k = "wallet_address" -> profile[1].wallet_address
           [] OTHER -> profile[1].camly_balance]

\* signAccessToken / signIDToken: the protected header's typ, the key that
\* signed, the issuer, the claims, iat and exp.
Issuer == "https://funprofile-api.funecosystem.org"
SigningKey == "funid-key-2026"

signAccessToken(claims, t) ==
  [typ |-> "at+jwt", key |-> SigningKey, iss |-> Issuer, claims |-> claims,
   iat |-> t, exp |-> t + ACCESS_TOKEN]
signIDToken(claims, t) ==
  [typ |-> "JWT", key |-> SigningKey, iss |-> Issuer, claims |-> claims,
   iat |-> t, exp |-> t + ID_TOKEN]

\* The PEM of env.FUNID_RSA_PRIVATE_KEY in the deployment that serves the
\* token endpoint, and jose's imports of a PEM.
EnvPem == "pem-1"

importPKCS8(pem) == <<"pkcs8", pem>>

importSPKI(pem) == <<"spki", pem>>

\* ------------------------------------------------------------ responses
NoStore == {"Cache-Control: no-store", "Pragma: no-cache"}

tokenError(error, description, status) ==
  [status |-> status, error |-> error, error_description |-> description,
   body |-> None, headers |-> NoStore]

tokenSuccess(tokens) ==
  [status |-> 200, error |-> "", error_description |-> "",
   body |-> Some(tokens), headers |-> NoStore]

\* ================================================================ state
VARIABLES
  codes,          \* oauth_authorization_codes: code -> row
  refreshTokens,  \* oauth_refresh_tokens: token_hash -> row
  now,            \* Date.now(), in seconds
  slots,          \* the token requests being served, one handler run per slot
  lastResponse,   \* the token endpoint's last completed request and its response
  nextCode,       \* generateAuthorizationCode(): the next fresh random value
  nextToken,      \* generateRefreshToken(): the next fresh random value
  nreq,           \* consent callbacks and token requests received so far
  nticks,         \* clock steps taken so far
  minted,         \* history: code -> the row as the callback created it
  grants,         \* history: the 200 token responses produced so far
  lastCallback,   \* the consent callback's last request and response
  lastAuthorize,  \* GET authorize's last request and response
  lastClaims,     \* the last ID-token / userinfo claim sets built
  lastPkce,       \* verifyPKCE's last arguments and result
  cachedPrivateKey, \* crypto.ts module state: the imported private key, or none
  cachedPublicKey,  \* crypto.ts module state: the imported public key, or none
  keyCalls,       \* the calls that need a key, one per index
  nclears,        \* clearKeyCache() calls made so far
  pending,        \* consent callbacks whose insert is in flight
  cleanup,        \* cleanup_expired_oauth_data() before its commit: now(), codes deleted
  ncleanups       \* cleanup_expired_oauth_data() calls begun so far

vars ==
  <<codes, refreshTokens, now, slots, lastResponse, nextCode, nextToken, nreq, nticks,
    minted, grants, lastCallback, lastAuthorize, lastClaims, lastPkce,
    cachedPrivateKey, cachedPublicKey, keyCalls, nclears, pending, cleanup, ncleanups>>

Slots == 1..MaxSlots

NoParams ==
  [grant_type |-> "", code |-> 0, redirect_uri |-> "", client_id |-> "",
   client_secret |-> "", code_verifier |-> <<>>, refresh_token |-> 0]

\* A call that needs a key: where it is in getPrivateKey / getPublicKey, the
\* PEM of its env, the key it got, and how many clearKeyCache() calls had
\* returned when it started.
KeyCalls == 1..MaxKeyCalls

IdleCall == [pc |-> "idle", fn |-> "", pem |-> "", key |-> None, clears |-> 0]

\* A handler run: its position (the await it is suspended at), its
\* parameters, the row it read (authCode or tokenRecord), its response, the
\* locals of generateTokens (profile, email, the two signed tokens, the
\* refresh token value and the expires_at computed for its row), and for the
\* history the clock value its expiry test read, which upstream calls it made
\* returned a non-ok response and whether the credential it presents had
\* already been redeemed when it arrived.
IdleSlot ==
  [pc |-> "idle", p |-> NoParams, rec |-> None, res |-> None,
   at |-> 0, failed |-> {}, prior |-> FALSE,
   profile |-> None, email |-> Null, access_token |-> None, id_token |-> None,
   refresh_token |-> 0, refresh_expires_at |-> 0]

Init ==
  /\ codes = <<>>
  /\ refreshTokens = <<>>
  /\ now = 0
  /\ slots = [r \in Slots |-> IdleSlot]
  /\ lastResponse = None
  /\ nextCode = 1
  /\ nextToken = 1
  /\ nreq = 0
  /\ nticks = 0
  /\ minted = <<>>
  /\ grants = {}
  /\ lastCallback = None
  /\ lastAuthorize = None
  /\ lastClaims = None
  /\ lastPkce = None
  /\ cachedPrivateKey = None
  /\ cachedPublicKey = None
  /\ keyCalls = [i \in KeyCalls |-> IdleCall]
  /\ nclears = 0
  /\ pending = {}
  /\ cleanup = None
  /\ ncleanups = 0

\* The credential a request presents.
Credential(p) ==
  IF p.grant_type = "authorization_code" THEN <<"code", p.code>>
  ELSE <<"refresh_token", p.refresh_token>>

Redeemed(cred) == \E g \in grants : g.cred = cred

\* ------------------------------------------------------ database helpers
\* A lookup that does not filter on used.
getAuthorizationCodeUsedToo(code, ok) ==
  IF ok /\ code \in DOMAIN codes THEN Some(codes[code]) ELSE None

\* getAuthorizationCode: ?code=eq.<code>&used=eq.false
getAuthorizationCode(code, ok) ==
  IF ok /\ code \in DOMAIN codes /\ ~codes[code].used THEN Some(codes[code]) ELSE None

\* A mark-used write that flips the flag.
markCodeAsUsedToggle(code, ok) ==
  IF ok /\ code \in DOMAIN codes
  THEN [codes EXCEPT ![code].used = ~@]
  ELSE codes

\* markCodeAsUsed: PATCH ?code=eq.<code> {used: true}; nothing changes when
\* the request is refused or no row matches.
markCodeAsUsed(code, ok) ==
  IF ok /\ code \in DOMAIN codes
  THEN [codes EXCEPT ![code].used = TRUE]
  ELSE codes

\* getRefreshTokenRecord: ?token_hash=eq.<hash>&revoked=eq.false
getRefreshTokenRecord(tokenHash, ok) ==
  IF ok /\ tokenHash \in DOMAIN refreshTokens /\ ~refreshTokens[tokenHash].revoked
  THEN Some(refreshTokens[tokenHash]) ELSE None

\* revokeRefreshToken: PATCH ?token_hash=eq.<hash> {revoked: true, revoked_at}
revokeRefreshToken(tokenHash, ok) ==
  IF ok /\ tokenHash \in DOMAIN refreshTokens
  THEN [refreshTokens EXCEPT ![tokenHash].revoked = TRUE]
  ELSE refreshTokens

\* storeRefreshToken: POST a row with the expires_at the caller computed;
\* token_hash is UNIQUE.
storeRefreshTokenOk(tokenHash, ok) == ok /\ tokenHash \notin DOMAIN refreshTokens

\* An insert that records every supported scope instead of the grant's.
storeRefreshTokenAllScopes(tokenHash, userId, clientId, scope, expiresAt, ok) ==
  IF storeRefreshTokenOk(tokenHash, ok)
  THEN refreshTokens @@
         (tokenHash :> [user_id |-> userId, client_id |-> clientId,
                        scope |-> SUPPORTED_SCOPES,
                        expires_at |-> expiresAt, revoked |-> FALSE])
  ELSE refreshTokens

storeRefreshToken(tokenHash, userId, clientId, scope, expiresAt, ok) ==
  IF storeRefreshTokenOk(tokenHash, ok)
  THEN refreshTokens @@
         (tokenHash :> [user_id |-> userId, client_id |-> clientId, scope |-> scope,
                        expires_at |-> expiresAt, revoked |-> FALSE])
  ELSE refreshTokens

\* new Date(expires_at) < new Date()
Expired(row) == row.expires_at < now

\* ------------------------------------------------------ token endpoint
\* handleAuthorizationCodeGrant, lines 324-336: the required parameters.
codeGrantParamError(p) ==
  IF p.code = 0 THEN Some(tokenError("invalid_request", "Missing code parameter", 400))
  ELSE IF ~Truthy(p.redirect_uri)
    THEN Some(tokenError("invalid_request", "Missing redirect_uri parameter", 400))
  ELSE IF ~Truthy(p.client_id)
    THEN Some(tokenError("invalid_request", "Missing client_id parameter", 400))
  ELSE IF p.code_verifier = <<>>
    THEN Some(tokenError("invalid_request",
                         "Missing code_verifier parameter (PKCE required)", 400))
  ELSE None

\* handleRefreshTokenGrant, lines 427-432.
refreshGrantParamError(p) ==
  IF p.refresh_token = 0
    THEN Some(tokenError("invalid_request", "Missing refresh_token parameter", 400))
  ELSE IF ~Truthy(p.client_id)
    THEN Some(tokenError("invalid_request", "Missing client_id parameter", 400))
  ELSE None

\* A grant that does not authenticate the client.
clientAuthErrorNone(client, client_secret) == None

\* Lines 375-391 and 453-469: resolve the client, check a confidential
\* client's secret.
clientAuthError(client, client_secret) ==
  IF client = None THEN Some(tokenError("invalid_client", "Client not found", 400))
  ELSE IF client[1].is_confidential
    THEN IF ~Truthy(client_secret)
           THEN Some(tokenError("invalid_client",
                                "Missing client_secret for confidential client", 400))
         ELSE IF ~verifyClientSecret(client_secret, client[1].client_secret_hash)
           THEN Some(tokenError("invalid_client", "Invalid client_secret", 400))
         ELSE None
  ELSE None

\* A grant that does not compare the redirect_uri.
redirectUnchecked(p, authCode) == FALSE

\* Line 356: authCode.redirect_uri !== redirect_uri
redirectMismatch(p, authCode) == authCode.redirect_uri # p.redirect_uri

\* A grant that does not check the code's binding.
codeBindingErrorNone(p, authCode) == None

\* Lines 350-373: the code's binding to client, redirect_uri and PKCE.
codeBindingError(p, authCode) ==
  IF authCode.client_id # p.client_id
    THEN Some(tokenError("invalid_grant", "client_id does not match authorization code", 400))
  ELSE IF redirectMismatch(p, authCode)
    THEN Some(tokenError("invalid_grant",
                         "redirect_uri does not match authorization code", 400))
  ELSE IF authCode.code_challenge = <<>>
    THEN Some(tokenError("invalid_grant", "Authorization code missing code_challenge", 400))
  ELSE IF ~verifyPKCE(p.code_verifier, authCode.code_challenge,
                      IF Truthy(authCode.code_challenge_method)
                      THEN authCode.code_challenge_method ELSE "S256")
    THEN Some(tokenError("invalid_grant", "PKCE verification failed", 400))
  ELSE None

Ended(run, response) == [run EXCEPT !.pc = "done", !.res = Some(response)]

\* The handler's promise rejects: an exception leaves it, no Response is
\* returned.
Thrown(run) == [run EXCEPT !.pc = "done", !.res = None]

\* handleAuthorizationCodeGrant, lines 324-342: the required parameters and
\* the read of the code's row.
codeGrantLookup(run, okCode) ==
  LET p == run.p
      authCode == getAuthorizationCode(p.code, okCode)
  IN  IF codeGrantParamError(p) # None THEN Ended(run, codeGrantParamError(p)[1])
      ELSE IF authCode = None
        THEN [Ended(run, tokenError("invalid_grant",
                                    "Invalid or expired authorization code", 400))
              EXCEPT !.failed = IF okCode THEN {} ELSE {"getAuthorizationCode"}]
      ELSE [run EXCEPT !.pc = "check", !.rec = authCode]

\* A grant that authenticates the client before it checks the code's binding.
codeGrantChecksAuthFirst(run, okClient) ==
  LET p == run.p
      authCode == run.rec
      client == getClient(p.client_id, okClient)
  IN  IF Expired(authCode[1]) THEN [run EXCEPT !.pc = "markExpired"]
      ELSE IF clientAuthError(client, p.client_secret) # None
        THEN Ended(run, clientAuthError(client, p.client_secret)[1])
      ELSE IF codeBindingError(p, authCode[1]) # None
        THEN Ended(run, codeBindingError(p, authCode[1])[1])
      ELSE [run EXCEPT !.pc = "markUsed"]

\* handleAuthorizationCodeGrant, lines 344-391, once the row read has been
\* answered: the clock is read for the expiry test, then the binding, the
\* client (getClient reads the registry, which no handler writes) and its
\* secret.
codeGrantChecks(run, okClient) ==
  LET p == run.p
      authCode == run.rec
      client == getClient(p.client_id, okClient)
  IN  IF Expired(authCode[1]) THEN [run EXCEPT !.pc = "markExpired"]
      ELSE IF codeBindingError(p, authCode[1]) # None
        THEN Ended(run, codeBindingError(p, authCode[1])[1])
      ELSE IF clientAuthError(client, p.client_secret) # None
        THEN [Ended(run, clientAuthError(client, p.client_secret)[1])
              EXCEPT !.failed = IF okClient THEN {} ELSE {"getClient"}]
      ELSE [run EXCEPT !.pc = "markUsed"]

\* handleRefreshTokenGrant, lines 427-440: the required parameters and the
\* read of the token's record.
refreshGrantLookup(run, okToken) ==
  LET p == run.p
      tokenRecord == getRefreshTokenRecord(hashToken(p.refresh_token), okToken)
  IN  IF refreshGrantParamError(p) # None THEN Ended(run, refreshGrantParamError(p)[1])
      ELSE IF tokenRecord = None
        THEN [Ended(run, tokenError("invalid_grant",
                                    "Invalid or expired refresh token", 400))
              EXCEPT !.failed = IF okToken THEN {} ELSE {"getRefreshTokenRecord"}]
      ELSE [run EXCEPT !.pc = "check", !.rec = tokenRecord]

\* handleRefreshTokenGrant, lines 442-469, once the record read has been
\* answered: the clock is read for the expiry test, then the client_id, the
\* client and its secret.
refreshGrantChecks(run, okClient) ==
  LET p == run.p
      tokenRecord == run.rec
      client == getClient(p.client_id, okClient)
  IN  IF Expired(tokenRecord[1]) THEN [run EXCEPT !.pc = "revokeExpired"]
      ELSE IF tokenRecord[1].client_id # p.client_id
        THEN Ended(run, tokenError("invalid_grant",
                                   "client_id does not match refresh token", 400))
      ELSE IF clientAuthError(client, p.client_secret) # None
        THEN [Ended(run, clientAuthError(client, p.client_secret)[1])
              EXCEPT !.failed = IF okClient THEN {} ELSE {"getClient"}]
      ELSE [run EXCEPT !.pc = "revoke"]

\* handleToken, lines 305-313: dispatch on grant_type, up to the answer of
\* the grant's row read.
tokenLookup(run, okRow) ==
  IF run.p.grant_type = "authorization_code" THEN codeGrantLookup(run, okRow)
  ELSE IF run.p.grant_type = "refresh_token" THEN refreshGrantLookup(run, okRow)
  ELSE Ended(run, tokenError("unsupported_grant_type",
         "Only authorization_code and refresh_token grants are supported", 400))

tokenChecks(run, okClient) ==
  IF run.p.grant_type = "authorization_code" THEN codeGrantChecks(run, okClient)
  ELSE refreshGrantChecks(run, okClient)

\* The lowest slot that serves no request: slots are interchangeable.
FreeSlot(r) ==
  /\ slots[r].pc = "idle"
  /\ \A q \in Slots : q < r => slots[q].pc # "idle"

\* A run that has its response leaves its slot; the response is recorded.
Settle(r, run) ==
  IF run.pc = "done"
  THEN /\ slots' = [slots EXCEPT ![r] = IdleSlot]
       /\ lastResponse' = Some(run)
  ELSE /\ slots' = [slots EXCEPT ![r] = run]
       /\ UNCHANGED lastResponse

\* A token request arrives; the store answers the read of its row.
TokenRequest(r, p, okRow) ==
  /\ nreq < MaxRequests
  /\ FreeSlot(r)
  /\ nreq' = nreq + 1
  /\ Settle(r, tokenLookup([IdleSlot EXCEPT !.p = p, !.at = now,
                                             !.prior = Redeemed(Credential(p))],
                           okRow))
/\ UNCHANGED <<codes, refreshTokens, now, nextCode, nextToken, nticks, minted, grants,
               lastCallback, lastAuthorize, lastClaims, lastPkce, cachedPrivateKey,
               cachedPublicKey, keyCalls, nclears, pending, cleanup, ncleanups>>

\* The handler resumes with the row: it reads the clock (lines 345 and 443)
\* and runs its checks up to the first store write.
TokenChecks(r, okClient) ==
  /\ slots[r].pc = "check"
  /\ Settle(r, tokenChecks([slots[r] EXCEPT !.at = now], okClient))
/\ UNCHANGED <<codes, refreshTokens, now, nextCode, nextToken, nreq, nticks, minted,
               grants, lastCallback, lastAuthorize, lastClaims, lastPkce,
               cachedPrivateKey, cachedPublicKey, keyCalls, nclears, pending, cleanup,
               ncleanups>>

\* A write the store applies to a row that cleanup_expired_oauth_data() has
\* deleted and not yet committed waits for the commit, and then finds no row.
codeRowLocked(code) == cleanup # None /\ code \in cleanup[1].codes

\* Lines 345-348: an expired code is marked used and refused.
CodeGrantExpire(r, ok) ==
  /\ slots[r].pc = "markExpired"
  /\ ok => ~codeRowLocked(slots[r].p.code)
  /\ codes' = markCodeAsUsed(slots[r].p.code, ok)
  /\ Settle(r, [Ended(slots[r], tokenError("invalid_grant",
                                           "Authorization code has expired", 400))
                EXCEPT !.failed = IF ok THEN {} ELSE {"markCodeAsUsed"}])
/\ UNCHANGED <<refreshTokens, now, nextCode, nextToken, nreq, nticks, minted, grants,
               lastCallback, lastAuthorize, lastClaims, lastPkce, cachedPrivateKey,
               cachedPublicKey, keyCalls, nclears, pending, cleanup, ncleanups>>

\* Line 394: await markCodeAsUsed(code, env); its result is not looked at.
CodeGrantMarkUsed(r, ok) ==
  /\ slots[r].pc = "markUsed"
  /\ ok => ~codeRowLocked(slots[r].p.code)
  /\ codes' = markCodeAsUsed(slots[r].p.code, ok)
  /\ slots' = [slots EXCEPT ![r].pc = "generate",
                            ![r].failed = IF ok THEN {} ELSE {"markCodeAsUsed"}]
/\ UNCHANGED <<refreshTokens, now, lastResponse, nextCode, nextToken, nreq, nticks,
               minted, grants, lastCallback, lastAuthorize, lastClaims, lastPkce,
               cachedPrivateKey, cachedPublicKey, keyCalls, nclears, pending, cleanup,
               ncleanups>>

\* Lines 443-446: an expired refresh token is revoked and refused.
RefreshGrantExpire(r, ok) ==
  /\ slots[r].pc = "revokeExpired"
  /\ refreshTokens' = revokeRefreshToken(hashToken(slots[r].p.refresh_token), ok)
  /\ Settle(r, [Ended(slots[r], tokenError("invalid_grant",
                                           "Refresh token has expired", 400))
                EXCEPT !.failed = IF ok THEN {} ELSE {"revokeRefreshToken"}])
/\ UNCHANGED <<codes, now, nextCode, nextToken, nreq, nticks, minted, grants,
               lastCallback, lastAuthorize, lastClaims, lastPkce, cachedPrivateKey,
               cachedPublicKey, keyCalls, nclears, pending, cleanup, ncleanups>>

\* Line 472: await revokeRefreshToken(tokenHash, env); its result is not
\* looked at.
RefreshGrantRevoke(r, ok) ==
  /\ slots[r].pc = "revoke"
  /\ refreshTokens' = revokeRefreshToken(hashToken(slots[r].p.refresh_token), ok)
  /\ slots' = [slots EXCEPT ![r].pc = "generate",
                            ![r].failed = IF ok THEN {} ELSE {"revokeRefreshToken"}]
/\ UNCHANGED <<codes, now, lastResponse, nextCode, nextToken, nreq, nticks, minted,
               grants, lastCallback, lastAuthorize, lastClaims, lastPkce,
               cachedPrivateKey, cachedPublicKey, keyCalls, nclears, pending, cleanup,
               ncleanups>>

\* ------------------------------------------------------- generateTokens
\* The arguments of the generateTokens call a run is in: the row's user,
\* client and scope; the nonce is the code's on the code grant, none on
\* refresh (lines 397-403 and 475-481).
GenNonce(run) ==
  IF run.p.grant_type = "refresh_token" THEN Null ELSE run.rec[1].nonce

AccessClaims(run) ==
  [sub |-> run.rec[1].user_id, aud |-> run.rec[1].client_id,
   client_id |-> run.rec[1].client_id, scope |-> run.rec[1].scope]

IdClaims(run) ==
  idTokenClaims(run.rec[1].user_id, run.rec[1].client_id, run.rec[1].scope,
                GenNonce(run), run.profile, run.email)

\* generateTokens, lines 246-253: the token set returned.
generateTokens(run) ==
  [access_token |-> run.access_token[1],
   token_type |-> "Bearer",
   expires_in |-> ACCESS_TOKEN,
   refresh_token |-> run.refresh_token,
   id_token |-> run.id_token[1],
   scope |-> run.rec[1].scope]

\* Lines 188-200: the profile read is answered and signAccessToken begins.
\* It throws when env.FUNID_RSA_PRIVATE_KEY is not set (crypto.ts 47-49) and
\* nothing catches it; getPrivateKey returns the cached key when there is
\* one, and the token is signed with iat the clock's reading; otherwise the
\* import of the env's PEM starts.
GenSignAccess(r, keyConfigured, okProfile) ==
  /\ slots[r].pc = "generate"
  /\ LET run == [slots[r] EXCEPT
                   !.profile = getUserProfile(slots[r].rec[1].user_id, okProfile),
                   !.failed = @ \cup (IF okProfile THEN {} ELSE {"getUserProfile"})]
     IN  IF ~keyConfigured THEN Settle(r, Thrown(run))
         ELSE IF cachedPrivateKey = None
           THEN Settle(r, [run EXCEPT !.pc = "importAccess"])
         ELSE Settle(r, [run EXCEPT !.pc = "signId",
                           !.access_token = Some(signAccessToken(AccessClaims(run), now))])
/\ UNCHANGED <<codes, refreshTokens, now, nextCode, nextToken, nreq, nticks, minted,
               grants, lastCallback, lastAuthorize, lastClaims, lastPkce,
               cachedPrivateKey, cachedPublicKey, keyCalls, nclears, pending, cleanup,
               ncleanups>>

\* Lines 218-233: the email read (made under scope email) is answered and
\* signIDToken begins, with the cached key or with an import.
GenSignId(r, okEmail) ==
  /\ slots[r].pc = "signId"
  /\ LET asked == "email" \in Range(slots[r].rec[1].scope)
         run == [slots[r] EXCEPT
                   !.email = IF asked THEN getUserEmail(slots[r].rec[1].user_id, okEmail)
                             ELSE Null,
                   !.failed = @ \cup (IF okEmail \/ ~asked THEN {} ELSE {"getUserEmail"})]
     IN  slots' = [slots EXCEPT ![r] =
           IF cachedPrivateKey = None THEN [run EXCEPT !.pc = "importId"]
           ELSE [run EXCEPT !.pc = "refresh",
                            !.id_token = Some(signIDToken(IdClaims(run), now))]]
/\ UNCHANGED <<codes, refreshTokens, now, lastResponse, nextCode, nextToken, nreq,
               nticks, minted, grants, lastCallback, lastAuthorize, lastClaims,
               lastPkce, cachedPrivateKey, cachedPublicKey, keyCalls, nclears, pending,
               cleanup, ncleanups>>

\* crypto.ts, line 25 after the await: the imported key is assigned to the
\* cache and the token is signed with it, iat the clock's reading.
KeyImported(r) ==
  /\ slots[r].pc \in {"importAccess", "importId"}
  /\ cachedPrivateKey' = Some(importPKCS8(EnvPem))
  /\ slots' = [slots EXCEPT ![r] =
       IF slots[r].pc = "importAccess"
       THEN [slots[r] EXCEPT !.pc = "signId",
               !.access_token = Some(signAccessToken(AccessClaims(slots[r]), now))]
       ELSE [slots[r] EXCEPT !.pc = "refresh",
               !.id_token = Some(signIDToken(IdClaims(slots[r]), now))]]
/\ UNCHANGED <<codes, refreshTokens, now, lastResponse, nextCode, nextToken, nreq,
               nticks, minted, grants, lastCallback, lastAuthorize, lastClaims,
               lastPkce, cachedPublicKey, keyCalls, nclears, pending, cleanup,
               ncleanups>>

\* Lines 236-237: the ID token is signed; the refresh token is generated and
\* its digest awaited.
GenRefreshToken(r) ==
  /\ slots[r].pc = "refresh"
  /\ nextToken' = nextToken + 1
  /\ slots' = [slots EXCEPT ![r].pc = "store", ![r].refresh_token = nextToken]
/\ UNCHANGED <<codes, refreshTokens, now, lastResponse, nextCode, nreq, nticks, minted,
               grants, lastCallback, lastAuthorize, lastClaims, lastPkce,
               cachedPrivateKey, cachedPublicKey, keyCalls, nclears, pending, cleanup,
               ncleanups>>

\* storeRefreshToken, lines 116-120: expires_at is computed from the clock
\* and the insert is sent.
GenStore(r) ==
  /\ slots[r].pc = "store"
  /\ slots' = [slots EXCEPT ![r].pc = "insert",
                            ![r].refresh_expires_at = now + REFRESH_TOKEN]
/\ UNCHANGED <<codes, refreshTokens, now, lastResponse, nextCode, nextToken, nreq,
               nticks, minted, grants, lastCallback, lastAuthorize, lastClaims,
               lastPkce, cachedPrivateKey, cachedPublicKey, keyCalls, nclears, pending,
               cleanup, ncleanups>>

\* The caller of generateTokens gets its result: the handlers answer 200
\* with the token set or server_error (lines 405-416 and 483-494).
Returned(r, run, stored) ==
  IF run.p = NoParams
  THEN /\ slots' = [slots EXCEPT ![r] = IdleSlot]
       /\ lastClaims' =
            Some([op |-> "generateTokens", userId |-> run.rec[1].user_id,
                  scope |-> run.rec[1].scope,
                  okProfile |-> "getUserProfile" \notin run.failed,
                  okEmail |-> "getUserEmail" \notin run.failed,
                  okJwks |-> TRUE,
                  tokens |-> IF stored THEN Some(generateTokens(run)) ELSE None])
       /\ UNCHANGED <<lastResponse, grants>>
  ELSE /\ Settle(r, Ended(run, IF stored THEN tokenSuccess(generateTokens(run))
                               ELSE tokenError("server_error",
                                               "Failed to generate tokens", 500)))
       /\ grants' =
            IF stored
            THEN grants \cup {[cred |-> Credential(run.p), token |-> run.refresh_token,
                               clean |-> run.failed = {}]}
            ELSE grants
       /\ UNCHANGED lastClaims

\* storeRefreshToken, lines 120-137, and lines 240-253: the store answers
\* the insert; generateTokens returns the token set, or null when the insert
\* was refused.
GenInsert(r, okStore) ==
  /\ slots[r].pc = "insert"
  /\ LET run == [slots[r] EXCEPT
                   !.failed = @ \cup (IF okStore THEN {} ELSE {"storeRefreshToken"})]
         row == run.rec[1]
         tokenHash == hashToken(run.refresh_token)
     IN  /\ refreshTokens' =
              storeRefreshToken(tokenHash, row.user_id, row.client_id, row.scope,
                                run.refresh_expires_at, okStore)
         /\ Returned(r, run, storeRefreshTokenOk(tokenHash, okStore))
/\ UNCHANGED <<codes, now, nextCode, nextToken, nreq, nticks, minted, lastCallback,
               lastAuthorize, lastPkce, cachedPrivateKey, cachedPublicKey, keyCalls,
               nclears, pending, cleanup, ncleanups>>

\* generateTokens called for a user, client, scope and nonce of the caller's
\* choosing.
IdToken(userId, clientId, scope, nonce) ==
  /\ slots[1].pc = "idle"
  /\ slots' = [slots EXCEPT ![1] =
       [IdleSlot EXCEPT !.pc = "generate", !.at = now,
          !.rec = Some([user_id |-> userId, client_id |-> clientId,
                        scope |-> scope, nonce |-> nonce])]]
/\ UNCHANGED <<codes, refreshTokens, now, lastResponse, nextCode, nextToken, nreq,
               nticks, minted, grants, lastCallback, lastAuthorize, lastClaims,
               lastPkce, cachedPrivateKey, cachedPublicKey, keyCalls, nclears, pending,
               cleanup, ncleanups>>

\* -------------------------------------------- authorize.ts: the callback
jsonError(error, description, status) ==
  [status |-> status, error |-> error, error_description |-> description,
   redirect |-> None]

\* The {redirect_uri: ...} descriptor: the URI the target is built on and the
\* query parameters added to it (code 0 / error "" when not set).
redirectDescriptor(base, code, error, state) ==
  [status |-> 200, error |-> "", error_description |-> "",
   redirect |-> Some([base |-> base, code |-> code, error |-> error, state |-> state])]

\* The row handleAuthorizeCallback builds, lines 293-307.
newAuthorizationCode(userId, body) ==
  [client_id |-> body.client_id, user_id |-> userId, redirect_uri |-> body.redirect_uri,
   scope |-> body.scope, code_challenge |-> body.code_challenge,
   code_challenge_method |-> body.code_challenge_method, state |-> body.state,
   nonce |-> IF Truthy(body.nonce) THEN body.nonce ELSE Null,
   expires_at |-> now + AUTHORIZATION_CODE, used |-> FALSE]

\* An insert that is never refused.
storeAuthorizationCodeOkAlways(row, ok) == TRUE

\* storeAuthorizationCode: POST a row.  The table refuses a NULL scope and a
\* code_challenge_method outside ('S256', 'plain') (NULL passes the CHECK).
storeAuthorizationCodeOk(row, ok) ==
  /\ ok
  /\ row.scope # <<>>
  /\ row.code_challenge_method \in {"S256", "plain", Null}

\* handleAuthorizeCallback, lines 266-287, for a body that parsed as JSON:
\* the response given before any code is generated, if there is one.
callbackRefusal(body, okClient) ==
  IF ~body.approved
    THEN Some(redirectDescriptor(body.redirect_uri, 0, "access_denied", body.state))
  ELSE LET client == getClient(body.client_id, okClient)
       IN  IF client = None
             THEN Some(jsonError("invalid_client", "Client not found", 400))
           ELSE IF body.redirect_uri \notin client[1].redirect_uris
             THEN Some(jsonError("invalid_request", "Invalid redirect_uri", 400))
           ELSE None

\* Lines 309-326: the response once the insert has been answered.
callbackResponse(body, code, stored) ==
  IF ~stored
    THEN jsonError("server_error", "Failed to generate authorization code", 500)
  ELSE redirectDescriptor(body.redirect_uri, code, "", body.state)

\* A callback that goes on to store a code whether or not the user approved.
CallbackStoresOnDenial(userId, body, okClient) ==
  LET client == getClient(body.client_id, okClient)
  IN  /\ client # None
      /\ body.redirect_uri \in client[1].redirect_uris

\* The callback goes on to generate and store a code.
CallbackStores(userId, body, okClient) ==
  LET client == getClient(body.client_id, okClient)
  IN  /\ body.approved
      /\ client # None
      /\ body.redirect_uri \in client[1].redirect_uris

\* The callback arrives and runs up to its store write: it answers a denial
\* or a failed validation, or generates the code, reads the clock for
\* expires_at (line 291) and sends the insert.
AuthorizeCallback(userId, body, okClient) ==
  /\ nreq < MaxRequests
  /\ nreq' = nreq + 1
  /\ IF CallbackStores(userId, body, okClient)
     THEN /\ Cardinality(pending) < MaxPending
          /\ pending' = pending \cup
               {[user |-> userId, body |-> body, at |-> now, okClient |-> okClient,
                 code |-> nextCode, row |-> newAuthorizationCode(userId, body)]}
          /\ nextCode' = nextCode + 1
          /\ UNCHANGED lastCallback
     ELSE /\ lastCallback' =
               Some([user |-> userId, body |-> body, at |-> now,
                     okClient |-> okClient, okStore |-> TRUE,
                     response |-> callbackRefusal(body, okClient)[1]])
          /\ UNCHANGED <<pending, nextCode>>
/\ UNCHANGED <<codes, refreshTokens, now, slots, lastResponse, nextToken, nticks,
               minted, grants, lastAuthorize, lastClaims, lastPkce, cachedPrivateKey,
               cachedPublicKey, keyCalls, nclears, cleanup, ncleanups>>

\* Lines 309-326: the store answers the insert and the callback responds.
CallbackInsert(c, okStore) ==
  /\ c \in pending
  /\ pending' = pending \ {c}
  /\ LET stored == storeAuthorizationCodeOk(c.row, okStore)
     IN  /\ codes' = IF stored THEN codes @@ (c.code :> c.row) ELSE codes
         /\ minted' = IF stored THEN minted @@ (c.code :> c.row) ELSE minted
         /\ lastCallback' =
              Some([user |-> c.user, body |-> c.body, at |-> c.at,
                    okClient |-> c.okClient, okStore |-> okStore,
                    response |-> callbackResponse(c.body, c.code, stored)])
/\ UNCHANGED <<refreshTokens, now, slots, lastResponse, nextCode, nextToken, nreq,
               nticks, grants, lastAuthorize, lastClaims, lastPkce, cachedPrivateKey,
               cachedPublicKey, keyCalls, nclears, cleanup, ncleanups>>

\* ------------------------------------- authorize.ts: GET /oauth/authorize
\* A parameter url.searchParams.get() finds absent or empty is "" (<<>> for
\* scope and code_challenge): the handler's tests are `!x` and `x || d`.
NoQuery ==
  [response_type |-> "", client_id |-> "", redirect_uri |-> "", scope |-> <<>>,
   state |-> "", code_challenge |-> <<>>, code_challenge_method |-> "", nonce |-> ""]

invalidAuthorize(error, errorUri) ==
  [valid |-> FALSE, error |-> error, errorUri |-> errorUri, params |-> NoQuery]

\* validateAuthorizeRequest, lines 21-78.
validateAuthorizeRequest(q) ==
  IF q.response_type = ""
    THEN invalidAuthorize("invalid_request", "Missing response_type parameter")
  ELSE IF q.response_type # "code"
    THEN invalidAuthorize("unsupported_response_type", "Only response_type=code is supported")
  ELSE IF q.client_id = ""
    THEN invalidAuthorize("invalid_request", "Missing client_id parameter")
  ELSE IF q.redirect_uri = ""
    THEN invalidAuthorize("invalid_request", "Missing redirect_uri parameter")
  ELSE IF q.state = ""
    THEN invalidAuthorize("invalid_request",
                          "Missing state parameter (required for CSRF protection)")
  ELSE IF q.code_challenge = <<>>
    THEN invalidAuthorize("invalid_request",
                          "Missing code_challenge parameter (PKCE is required)")
  ELSE IF q.code_challenge_method # "" /\ q.code_challenge_method # "S256"
    THEN invalidAuthorize("invalid_request", "Only S256 code_challenge_method is supported")
  ELSE IF ~isValidCodeChallenge(q.code_challenge)
    THEN invalidAuthorize("invalid_request", "Invalid code_challenge format")
  ELSE [valid |-> TRUE, error |-> "", errorUri |-> "",
        params |-> [q EXCEPT !.scope = IF q.scope = <<>> THEN <<"openid">> ELSE q.scope,
                             !.code_challenge_method =
                                IF q.code_challenge_method = "" THEN "S256"
                                ELSE q.code_challenge_method]]

\* Response.redirect(url, 302): the URL's base and its query parameters.
redirect302(base, params) ==
  [status |-> 302, error |-> "", error_description |-> "",
   redirect |-> Some([base |-> base, params |-> params])]

\* authorizationError, lines 147-161.
authorizationError(redirectUri, error, errorDescription, state) ==
  redirect302(redirectUri,
              [error |-> error, error_description |-> errorDescription, state |-> state])

ConsentUrl == "https://soul-spark-web3.lovable.app/oauth/consent"

\* handleAuthorize, lines 179-237.
handleAuthorize(q, okClient) ==
  LET validation == validateAuthorizeRequest(q)
      params == validation.params
      client == getClient(params.client_id, okClient)
      validScopes == validateScopes(params.scope)
  IN  IF ~validation.valid THEN jsonError(validation.error, validation.errorUri, 400)
      ELSE IF client = None
        THEN jsonError("invalid_client", "Client not found or inactive", 400)
      ELSE IF params.redirect_uri \notin client[1].redirect_uris
        THEN jsonError("invalid_request", "redirect_uri not registered for this client", 400)
      ELSE IF Len(validScopes) = 0
        THEN authorizationError(params.redirect_uri, "invalid_scope",
                                "No valid scopes requested", params.state)
      ELSE redirect302(ConsentUrl,
             [client_id |-> params.client_id, client_name |-> client[1].client_name,
              scope |-> validScopes, state |-> params.state,
              redirect_uri |-> params.redirect_uri,
              code_challenge |-> params.code_challenge,
              code_challenge_method |-> params.code_challenge_method,
              nonce |-> params.nonce])

Authorize(q, okClient) ==
  /\ lastAuthorize' =
       Some([q |-> q, okClient |-> okClient, response |-> handleAuthorize(q, okClient)])
  /\ UNCHANGED <<codes, refreshTokens, now, slots, lastResponse, nextCode, nextToken,
                 nreq, nticks, minted, grants, lastCallback, lastClaims,
                 lastPkce, cachedPrivateKey, cachedPublicKey, keyCalls, nclears, pending, cleanup,
                 ncleanups>>

\* --------------------------------------------------------- userinfo.ts
\* verifyAccessToken, lines 28-49: jwtVerify against the IdP's own JWKS, the
\* remote key set of <issuer>/.well-known/jwks.json, with the issuer
\* required, then a string sub; the payload, or null when verification
\* throws.  okJwks: the key set is there for jwtVerify (its fetch, when one
\* is made, is answered with the keys).
verifyAccessToken(token, okJwks) ==
  IF /\ okJwks
     /\ token.key = SigningKey
     /\ token.iss = Issuer
     /\ token.exp > now
     /\ "sub" \in DOMAIN token.claims
     /\ token.claims["sub"] # ""
  THEN Some(token.claims) ELSE None

errorResponse(error, description, status) ==
  [status |-> status, error |-> error, error_description |-> description, claims |-> None]

\* handleUserInfo, lines 106-173.  The request is its Authorization header's
\* scheme and the token that follows it (None when nothing follows: the
\* header value is then "Bearer", which does not start with "Bearer ").
handleUserInfo(request, okJwks, okProfile, okEmail) ==
  IF request.scheme # "Bearer" \/ request.token = None
    THEN errorResponse("invalid_token", "Missing or invalid Authorization header", 401)
  ELSE LET payload == verifyAccessToken(request.token[1], okJwks)
       IN  IF payload = None
             THEN errorResponse("invalid_token", "Invalid or expired access token", 401)
           ELSE LET userId == payload[1]["sub"]
                    scopes == IF "scope" \in DOMAIN payload[1] /\ payload[1]["scope"] # <<>>
                              THEN payload[1]["scope"] ELSE <<"">>
                    profile == getUserProfile(userId, okProfile)
                    email == IF "email" \in Range(scopes)
                             THEN getUserEmail(userId, okEmail) ELSE Null
                IN  [status |-> 200, error |-> "", error_description |-> "",
                     claims |-> Some(userInfoResponse(userId, scopes, profile, email))]

UserInfo(request, okJwks, okProfile, okEmail) ==
  /\ lastClaims' =
       Some([op |-> "userinfo", request |-> request, okJwks |-> okJwks,
             okProfile |-> okProfile, okEmail |-> okEmail,
             response |-> handleUserInfo(request, okJwks, okProfile, okEmail)])
/\ UNCHANGED <<codes, refreshTokens, now, slots, lastResponse, nextCode, nextToken,
               nreq, nticks, minted, grants, lastCallback, lastAuthorize, lastPkce,
               cachedPrivateKey, cachedPublicKey, keyCalls, nclears, pending, cleanup,
               ncleanups>>

\* ------------------------------------------------------ time and cleanup
TickSteps == {REFRESH_TOKEN + 1}

Tick(d) ==
  /\ nticks < MaxTicks
  /\ nticks' = nticks + 1
  /\ now' = now + d
  /\ UNCHANGED <<codes, refreshTokens, slots, lastResponse, nextCode, nextToken, nreq,
                 minted, grants, lastCallback, lastAuthorize, lastClaims,
                 lastPkce, cachedPrivateKey, cachedPublicKey, keyCalls, nclears, pending, cleanup,
                 ncleanups>>

\* cleanup_expired_oauth_data() runs in one transaction.  Its first statement,
\* DELETE FROM oauth_authorization_codes WHERE expires_at < now() OR used,
\* picks its rows among those committed when it runs; now() is the time the
\* transaction began.  Until the commit the other requests still read the
\* rows it deleted, and a write to one of them waits.
CleanupCodes ==
  /\ cleanup = None
  /\ ncleanups < MaxCleanups
  /\ ncleanups' = ncleanups + 1
  /\ cleanup' = Some([now |-> now,
                      codes |-> {k \in DOMAIN codes :
                                   codes[k].expires_at < now \/ codes[k].used}])
/\ UNCHANGED <<codes, refreshTokens, now, slots, lastResponse, nextCode, nextToken, nreq,
               nticks, minted, grants, lastCallback, lastAuthorize, lastClaims,
               lastPkce, cachedPrivateKey, cachedPublicKey, keyCalls, nclears, pending>>

\* Second statement, DELETE FROM oauth_refresh_tokens WHERE expires_at <
\* now() OR revoked, over the rows committed when it runs; the function
\* returns and the transaction commits: the rows of both statements are gone.
CleanupRefreshTokens ==
  /\ cleanup # None
  /\ cleanup' = None
  /\ codes' = [c \in DOMAIN codes \ cleanup[1].codes |-> codes[c]]
  /\ refreshTokens' =
       [h \in {k \in DOMAIN refreshTokens :
                 ~(refreshTokens[k].expires_at < cleanup[1].now \/ refreshTokens[k].revoked)}
          |-> refreshTokens[h]]
/\ UNCHANGED <<now, slots, lastResponse, nextCode, nextToken, nreq, nticks,
               minted, grants, lastCallback, lastAuthorize, lastClaims, lastPkce,
               cachedPrivateKey, cachedPublicKey, keyCalls, nclears, pending,
               ncleanups>>

\* ------------------------------------------------ the clients' requests
\* The secret a client holds.
SecretOf(clientId) == IF clientId = "conf" THEN SecretConf ELSE ""

\* An upstream call is answered ok or not.
Outcomes == BOOLEAN

\* The consent UI's callback for a request that GET authorize validated.
FlowBodies ==
  [client_id : {"conf"}, redirect_uri : {RedirApp}, scope : {ScopeAll},
   state : {"xyz"}, code_challenge : {ChallengeA}, code_challenge_method : {"S256"},
   nonce : {"n-1"}, approved : {TRUE}]

\* What the client a code was issued to sends to redeem it.
CodeRequest(c) ==
  [NoParams EXCEPT !.grant_type = "authorization_code", !.code = c,
     !.redirect_uri = minted[c].redirect_uri, !.client_id = minted[c].client_id,
     !.client_secret = SecretOf(minted[c].client_id), !.code_verifier = VerifierA]

\* The requests of the flow: a code's redemption by its client, a refresh
\* token's rotation by its holder.
FlowRequests ==
  { CodeRequest(c) : c \in DOMAIN minted }
  \cup
  { [NoParams EXCEPT !.grant_type = "refresh_token", !.refresh_token = t,
       !.client_id = cl, !.client_secret = SecretOf(cl)]
      : t \in 1..(nextToken - 1), cl \in {minted[c].client_id : c \in DOMAIN minted} }

\* The authorization-code flow of a registered client, its token requests
\* served concurrently, the store refusing any of their writes.
Next ==
  \/ \E b \in FlowBodies : AuthorizeCallback("alice", b, TRUE)
  \/ \E c \in pending : CallbackInsert(c, TRUE)
  \/ \E r \in Slots, p \in FlowRequests : TokenRequest(r, p, TRUE)
  \/ \E r \in Slots : TokenChecks(r, TRUE)
  \/ \E r \in Slots, ok \in Outcomes : CodeGrantExpire(r, ok)
  \/ \E r \in Slots, ok \in Outcomes : CodeGrantMarkUsed(r, ok)
  \/ \E r \in Slots, ok \in Outcomes : RefreshGrantExpire(r, ok)
  \/ \E r \in Slots, ok \in Outcomes : RefreshGrantRevoke(r, ok)
  \/ \E r \in Slots : GenSignAccess(r, TRUE, TRUE)
  \/ \E r \in Slots : KeyImported(r)
  \/ \E r \in Slots : GenSignId(r, TRUE)
  \/ \E r \in Slots : GenRefreshToken(r)
  \/ \E r \in Slots : GenStore(r)
  \/ \E r \in Slots, okStore \in Outcomes : GenInsert(r, okStore)
  \/ \E d \in TickSteps : Tick(d)
  \/ CleanupCodes
  \/ CleanupRefreshTokens

Spec == Init /\ [][Next]_vars

\* ---------------------------------------------- the token endpoint alone
\* One request at a time (a callback or a token request arrives when none
\* is being served), with any parameters, against codes the callback stored
\* for either client, with or without a challenge and method; the store may
\* refuse any read or write of the token request.  No time passes, so no
\* credential expires.
GrantBodies ==
  { [client_id |-> cl, redirect_uri |-> RedirApp, scope |-> ScopeAll, state |-> "xyz",
     code_challenge |-> ChallengeA, code_challenge_method |-> "S256", nonce |-> "n-1",
     approved |-> TRUE] : cl \in {"pub", "conf"} }
  \cup
  { [client_id |-> "pub", redirect_uri |-> RedirApp, scope |-> ScopeAll, state |-> "xyz",
     code_challenge |-> pk[1], code_challenge_method |-> pk[2], nonce |-> "n-1",
     approved |-> TRUE]
      : pk \in {<<ChallengeA, "plain">>, <<ChallengeA, Null>>, <<None, "S256">>} }

\* The consents given: alice's to each of GrantBodies, and bob's to a request
\* for scope openid alone, without a nonce.
GrantConsents ==
  { <<"alice", b>> : b \in GrantBodies }
  \cup
  { <<"bob",
      [client_id |-> "pub", redirect_uri |-> RedirAlt, scope |-> ScopeOpenid,
       state |-> "xyz", code_challenge |-> ChallengeA, code_challenge_method |-> "S256",
       nonce |-> "", approved |-> TRUE]>> }

\* A value no callback and no token response ever generated.
NoSuchCredential == MaxRequests + 1

GrantRequests ==
  { [CodeRequest(c) EXCEPT !.redirect_uri = ru, !.client_id = cl, !.client_secret = cs,
                           !.code_verifier = cv]
      : c \in DOMAIN minted, ru \in {RedirApp, RedirAlt}, cl \in {"pub", "conf"},
        cs \in {"", SecretConf, "wrong"}, cv \in {VerifierA, VerifierB} }
  \cup { [CodeRequest(c) EXCEPT !.code_verifier = VerifierShort] : c \in DOMAIN minted }
  \cup { [CodeRequest(c) EXCEPT !.code = NoSuchCredential] : c \in DOMAIN minted }
  \cup { [CodeRequest(c) EXCEPT !.code = 0] : c \in DOMAIN minted }
  \cup { [CodeRequest(c) EXCEPT !.redirect_uri = ""] : c \in DOMAIN minted }
  \cup { [CodeRequest(c) EXCEPT !.client_id = ""] : c \in DOMAIN minted }
  \cup { [CodeRequest(c) EXCEPT !.code_verifier = <<>>] : c \in DOMAIN minted }
  \cup { [CodeRequest(c) EXCEPT !.grant_type = g] : c \in DOMAIN minted, g \in {"", "password"} }
  \cup
  { [NoParams EXCEPT !.grant_type = "refresh_token", !.refresh_token = t,
       !.client_id = cl, !.client_secret = cs]
      : t \in 0..(nextToken - 1) \cup {NoSuchCredential},
        cl \in {"pub", "conf", ""}, cs \in {"", SecretConf, "wrong"} }

NextGrant ==
  \/ \E consent \in GrantConsents :
       nreq < MaxGrantRequests /\ slots[1].pc = "idle"
         /\ AuthorizeCallback(consent[1], consent[2], TRUE)
  \/ \E c \in pending : CallbackInsert(c, TRUE)
  \/ \E p \in GrantRequests, okRow \in Outcomes :
       nreq < MaxGrantRequests /\ pending = {} /\ TokenRequest(1, p, okRow)
  \/ \E okClient \in Outcomes : TokenChecks(1, okClient)
  \/ \E ok \in Outcomes : CodeGrantMarkUsed(1, ok)
  \/ \E ok \in Outcomes : RefreshGrantRevoke(1, ok)
  \/ GenSignAccess(1, TRUE, TRUE)
  \/ KeyImported(1)
  \/ GenSignId(1, TRUE)
  \/ GenRefreshToken(1)
  \/ GenStore(1)
  \/ \E okStore \in Outcomes : GenInsert(1, okStore)

SpecGrant == Init /\ [][NextGrant]_vars

\* ------------------------------------------- the code grant's checks alone
\* One authorization_code request at a time, with any parameters, against
\* codes that are unknown, unused, used or expired; every upstream call is
\* answered ok.
OrderRequests == { p \in GrantRequests : p.grant_type = "authorization_code" }

\* The consents: to either client with an S256 challenge, and to one request
\* stored without a challenge.
OrderBodies == { b \in GrantBodies : b.code_challenge_method = "S256" }

NextOrder ==
  \/ \E b \in OrderBodies :
       nreq < MaxOrderRequests /\ slots[1].pc = "idle"
         /\ AuthorizeCallback("alice", b, TRUE)
  \/ \E c \in pending : CallbackInsert(c, TRUE)
  \/ \E p \in OrderRequests :
       nreq < MaxOrderRequests /\ pending = {} /\ TokenRequest(1, p, TRUE)
  \/ TokenChecks(1, TRUE)
  \/ CodeGrantExpire(1, TRUE)
  \/ CodeGrantMarkUsed(1, TRUE)
  \/ GenSignAccess(1, TRUE, TRUE)
  \/ KeyImported(1)
  \/ GenSignId(1, TRUE)
  \/ GenRefreshToken(1)
  \/ GenStore(1)
  \/ GenInsert(1, TRUE)
  \/ \E d \in TickSteps : Tick(d)

SpecOrder == Init /\ [][NextOrder]_vars

\* ------------------------------------------- the token endpoint's envelope
\* POST /oauth/token with any Content-Type and a body that parses or not,
\* in a deployment whose signing key is configured or not.
ContentTypes ==
  {"application/x-www-form-urlencoded", "application/json",
   "application/x-www-form-urlencoded;charset=UTF-8", "application/json; charset=utf-8",
   "application/json-patch+json", "Application/JSON", "text/plain", ""}

\* String.prototype.includes: needle occurs somewhere in s.
includes(s, needle) ==
  \E i \in 0..(Len(s) - Len(needle)) : SubSeq(s, i + 1, i + Len(needle)) = needle

\* The parser the Content-Type header selects (lines 296-303): the form
\* parser when the header includes application/x-www-form-urlencoded, else
\* the JSON parser when it includes application/json, else none.
bodyParser(contentType) ==
  IF includes(contentType, "application/x-www-form-urlencoded") THEN "form"
  ELSE IF includes(contentType, "application/json") THEN "json"
  ELSE ""

\* handleToken, lines 288-314.  parseFormData applies decodeURIComponent to
\* every key and value (line 261) and request.json() parses the body (line
\* 300); neither call is guarded, so a body that does not decode or parse
\* raises out of the handler.
handleToken(run, contentType, parses, okRow) ==
  IF bodyParser(contentType) # ""
  THEN IF parses THEN tokenLookup(run, okRow) ELSE Thrown(run)
  ELSE Ended(run, tokenError("invalid_request",
         "Content-Type must be application/x-www-form-urlencoded or application/json",
         400))

\* A POST arrives; its body is read and, when it parses, the store answers
\* the read of the grant's row.  The parameters are those of a body that
\* parses under a supported Content-Type.
TokenPost(r, contentType, parses, p, okRow) ==
  /\ nreq < MaxEndpointRequests
  /\ FreeSlot(r)
  /\ nreq' = nreq + 1
  /\ LET read == parses /\ bodyParser(contentType) # ""
         params == IF read THEN p ELSE NoParams
     IN  Settle(r, handleToken([IdleSlot EXCEPT !.p = params, !.at = now,
                                               !.prior = Redeemed(Credential(params))],
                               contentType, parses, okRow))
/\ UNCHANGED <<codes, refreshTokens, now, nextCode, nextToken, nticks, minted, grants,
               lastCallback, lastAuthorize, lastClaims, lastPkce, cachedPrivateKey,
               cachedPublicKey, keyCalls, nclears, pending, cleanup, ncleanups>>

EndpointBodies == { b \in GrantBodies : b.code_challenge_method = "S256"
                                          /\ b.code_challenge # None }

NextEndpoint ==
  \/ \E b \in EndpointBodies :
       nreq < MaxEndpointRequests /\ slots[1].pc = "idle"
         /\ AuthorizeCallback("alice", b, TRUE)
  \/ \E c \in pending : CallbackInsert(c, TRUE)
  \/ \E contentType \in ContentTypes, parses \in BOOLEAN, p \in GrantRequests,
        okRow \in Outcomes :
       pending = {} /\ TokenPost(1, contentType, parses, p, okRow)
  \/ \E okClient \in Outcomes : TokenChecks(1, okClient)
  \/ \E ok \in Outcomes : CodeGrantMarkUsed(1, ok)
  \/ \E ok \in Outcomes : RefreshGrantRevoke(1, ok)
  \/ \E keyConfigured \in BOOLEAN : GenSignAccess(1, keyConfigured, TRUE)
  \/ KeyImported(1)
  \/ GenSignId(1, TRUE)
  \/ GenRefreshToken(1)
  \/ GenStore(1)
  \/ \E okStore \in Outcomes : GenInsert(1, okStore)

SpecEndpoint == Init /\ [][NextEndpoint]_vars

\* ------------------------------------------------------ the key cache alone
\* crypto.ts: signAccessToken and signIDToken get the private key of
\* env.FUNID_RSA_PRIVATE_KEY, exportPublicKeyAsJWK the public key of
\* env.FUNID_RSA_PUBLIC_KEY, through one module-level cache each.
Pems == {"pem-1", "pem-2"}

KeyFunctions == {"signAccessToken", "exportPublicKeyAsJWK"}

\* Lines 23-28 and 33-38 up to the await: a cached key is returned as it
\* is, whatever the PEM; otherwise the import starts.
GetKey(i, fn, pem) ==
  /\ keyCalls[i].pc = "idle"
  /\ \A j \in KeyCalls : j < i => keyCalls[j].pc # "idle"
  /\ LET cache == IF fn = "signAccessToken" THEN cachedPrivateKey ELSE cachedPublicKey
     IN  keyCalls' = [keyCalls EXCEPT ![i] =
           [pc |-> IF cache = None THEN "import" ELSE "done",
            fn |-> fn, pem |-> pem, key |-> cache, clears |-> nclears]]
  /\ UNCHANGED <<codes, refreshTokens, now, slots, lastResponse, nextCode, nextToken,
                 nreq, nticks, minted, grants, lastCallback, lastAuthorize, lastClaims,
                 lastPkce, cachedPrivateKey, cachedPublicKey, nclears, pending, cleanup,
                 ncleanups>>

\* Lines 25 and 35 after the await: the imported key is assigned to the
\* cache and returned.
ImportResolved(i) ==
  /\ keyCalls[i].pc = "import"
  /\ LET call == keyCalls[i]
         key == IF call.fn = "signAccessToken" THEN importPKCS8(call.pem)
                ELSE importSPKI(call.pem)
     IN  /\ cachedPrivateKey' =
              IF call.fn = "signAccessToken" THEN Some(key) ELSE cachedPrivateKey
         /\ cachedPublicKey' =
              IF call.fn = "signAccessToken" THEN cachedPublicKey ELSE Some(key)
         /\ keyCalls' = [keyCalls EXCEPT ![i].pc = "done", ![i].key = Some(key)]
  /\ UNCHANGED <<codes, refreshTokens, now, slots, lastResponse, nextCode, nextToken,
                 nreq, nticks, minted, grants, lastCallback, lastAuthorize, lastClaims,
                 lastPkce, nclears, pending, cleanup,
                 ncleanups>>

\* clearKeyCache, lines 181-184.
ClearKeyCache ==
  /\ nclears < MaxClears
  /\ nclears' = nclears + 1
  /\ cachedPrivateKey' = None
  /\ cachedPublicKey' = None
  /\ UNCHANGED <<codes, refreshTokens, now, slots, lastResponse, nextCode, nextToken,
                 nreq, nticks, minted, grants, lastCallback, lastAuthorize, lastClaims,
                 lastPkce, keyCalls, pending, cleanup,
                 ncleanups>>

NextKeys ==
  \/ \E i \in KeyCalls, fn \in KeyFunctions, pem \in Pems : GetKey(i, fn, pem)
  \/ \E i \in KeyCalls : ImportResolved(i)
  \/ ClearKeyCache

SpecKeys == Init /\ [][NextKeys]_vars

\* ------------------------------------------------ the consent callback alone
\* The callback for any caller and body: an active, an inactive and an
\* unknown client, a registered and an unregistered redirect_uri, approved
\* or denied, the client lookup and the insert answered ok or not, and one
\* approved body that names a scope the server does not support; the codes
\* it stores are redeemed by their client and time passes.
CallbackBodies ==
  [client_id : {"pub", "off", "nobody"}, redirect_uri : {RedirApp, RedirEvil},
   scope : {ScopeAll}, state : {"xyz"}, code_challenge : {ChallengeA},
   code_challenge_method : {"S256"}, nonce : {"n-1"}, approved : BOOLEAN]
  \cup
  { [client_id |-> "pub", redirect_uri |-> RedirApp, scope |-> ScopeMixed,
     state |-> "xyz", code_challenge |-> ChallengeA, code_challenge_method |-> "S256",
     nonce |-> "n-1", approved |-> TRUE] }

NextCallback ==
  \/ \E u \in {"alice", "bob"}, b \in CallbackBodies, okClient \in Outcomes :
       nreq < MaxCallbackRequests /\ slots[1].pc = "idle"
         /\ AuthorizeCallback(u, b, okClient)
  \/ \E c \in pending, okStore \in Outcomes : CallbackInsert(c, okStore)
  \/ \E c \in DOMAIN minted :
       nreq < MaxCallbackRequests /\ pending = {}
         /\ TokenRequest(1, CodeRequest(c), TRUE)
  \/ TokenChecks(1, TRUE)
  \/ CodeGrantExpire(1, TRUE)
  \/ CodeGrantMarkUsed(1, TRUE)
  \/ GenSignAccess(1, TRUE, TRUE)
  \/ KeyImported(1)
  \/ GenSignId(1, TRUE)
  \/ GenRefreshToken(1)
  \/ GenStore(1)
  \/ GenInsert(1, TRUE)
  \/ \E d \in TickSteps : Tick(d)

SpecCallback == Init /\ [][NextCallback]_vars

\* ------------------------------------------------------ GET authorize alone
AuthorizeQueries ==
  [response_type : {"", "code", "token"},
   client_id : {"", "pub", "off", "nobody"},
   redirect_uri : {"", RedirApp, RedirEvil},
   scope : {<<>>, ScopeAll, ScopeAdmin, ScopeMixed},
   state : {"", "xyz"},
   code_challenge : {<<>>, ChallengeA, ChallengeShort, ChallengeBadChar},
   code_challenge_method : {"", "S256", "plain"},
   nonce : {"", "n-1"}]

NextAuthorize ==
  \E q \in AuthorizeQueries, okClient \in Outcomes :
    lastAuthorize = None /\ Authorize(q, okClient)

SpecAuthorize == Init /\ [][NextAuthorize]_vars

\* ------------------------------------------- the claims of a subject alone
ScopeWords == {"openid", "profile", "email", "wallet", "admin"}
ScopePool ==
  {<<a>> : a \in ScopeWords} \cup {<<a, b>> : a, b \in ScopeWords}
    \cup {ScopeAll, ScopeMixed, <<"">>}

AccessTokens ==
  { signAccessToken([sub |-> u, aud |-> "pub", client_id |-> "pub", scope |-> sc], 0)
      : u \in Users, sc \in ScopePool }

UserInfoRequests ==
  { [scheme |-> "Bearer", token |-> Some(t)] : t \in AccessTokens }
  \cup { [scheme |-> "Bearer", token |-> None],
         [scheme |-> "Basic", token |-> None],
         [scheme |-> "", token |-> None] }
  \cup { [scheme |-> "Bearer", token |-> Some([t EXCEPT !.key = "other-key"])]
           : t \in {signAccessToken([sub |-> "alice", aud |-> "pub", client_id |-> "pub",
                                     scope |-> ScopeAll], 0)} }
  \cup { [scheme |-> "Bearer",
          token |-> Some(signIDToken(idTokenClaims(u, "pub", ScopeAll, "n-1",
                                                    getUserProfile(u, TRUE),
                                                    getUserEmail(u, TRUE)), 0))]
           : u \in {"alice", "ghost"} }

NextClaims ==
  \/ \E u \in Users, sc \in ScopePool, nonce \in {Null, "n-1"} :
       lastClaims = None /\ IdToken(u, "pub", sc, nonce)
  \/ \E okProfile \in Outcomes : GenSignAccess(1, TRUE, okProfile)
  \/ KeyImported(1)
  \/ \E okEmail \in Outcomes : GenSignId(1, okEmail)
  \/ GenRefreshToken(1)
  \/ GenStore(1)
  \/ \E okStore \in Outcomes : GenInsert(1, okStore)
  \/ \E request \in UserInfoRequests, okJwks, okProfile, okEmail \in Outcomes :
       lastClaims = None /\ slots[1].pc = "idle"
         /\ UserInfo(request, okJwks, okProfile, okEmail)

SpecClaims == Init /\ [][NextClaims]_vars

\* ------------------------------------------------------ verifyPKCE alone
\* verifyPKCE applied once to a verifier, a challenge and a method.
VerifyPkce(codeVerifier, codeChallenge, method) ==
  /\ lastPkce' =
       Some([codeVerifier |-> codeVerifier, codeChallenge |-> codeChallenge,
             method |-> method,
             result |-> verifyPKCE(codeVerifier, codeChallenge, method)])
  /\ UNCHANGED <<codes, refreshTokens, now, slots, lastResponse, nextCode, nextToken,
                 nreq, nticks, minted, grants, lastCallback, lastAuthorize, lastClaims,
                 cachedPrivateKey, cachedPublicKey, keyCalls, nclears, pending, cleanup,
                 ncleanups>>

PkceVerifiers == Range(VerifierPool)

\* The challenge with its i-th character replaced by another.
ChallengeMutatedAt(challenge, i) ==
  [challenge EXCEPT ![i] = IF challenge[i] = "A" THEN "B" ELSE "A"]

\* The challenges of the pool's verifiers, each also with one character
\* replaced, with its last character missing and with one character more.
PkceChallenges ==
  LET derived == {generateCodeChallenge(v) : v \in PkceVerifiers}
  IN  derived
      \cup {ChallengeMutatedAt(c, i) : c \in derived, i \in 1..ChallengeLen}
      \cup {SubSeq(c, 1, Len(c) - 1) : c \in derived}
      \cup {Append(c, "A") : c \in derived}
      \cup {<<>>}

PkceMethods == {"S256", "plain", "s256", ""}

NextPkce ==
  \E v \in PkceVerifiers, c \in PkceChallenges, m \in PkceMethods :
    lastPkce = None /\ VerifyPkce(v, c, m)

SpecPkce == Init /\ [][NextPkce]_vars

\* ================================================================ claims
Last == lastResponse[1]
IsCodeGrant(run) == run.p.grant_type = "authorization_code"
IsRefreshGrant(run) == run.p.grant_type = "refresh_token"
HasTokens(run) == run.res[1].status = 200 /\ run.res[1].body # None
InvalidGrant(run) ==
  run.res[1].error = "invalid_grant" /\ run.res[1].status = 400 /\ run.res[1].body = None

\* The 200 responses produced for a credential by runs all of whose upstream
\* calls, the consuming write included, were answered ok.
CleanGrants(cred) == {g \in grants : g.cred = cred /\ g.clean}

\* C1: of the token requests that present the same valid code, each reading
\* it and later writing used = true, at most one returns a token set.
C1_AtMostOneRedemption ==
  \A c \in DOMAIN minted : Cardinality(CleanGrants(<<"code", c>>)) <= 1

\* C2: of the refresh_token requests that present the same valid refresh
\* token, at most one completes a rotation.
C2_AtMostOneRotation ==
  \A t \in 1..(nextToken - 1) : Cardinality(CleanGrants(<<"refresh_token", t>>)) <= 1

\* The run read the code's row unused and unexpired.
FoundFresh(run) == run.rec # None /\ ~(run.rec[1].expires_at < run.at)

\* The first redemption of a fresh code by its client answers 200 with a
\* token set whose expires_in is 3600.
C3_FirstRedemptionSucceeds ==
  (lastResponse # None /\ IsCodeGrant(Last) /\ FoundFresh(Last) /\ Last.failed = {})
    => /\ HasTokens(Last)
       /\ Last.res[1].body[1].expires_in = 3600
       /\ Last.res[1].body[1].refresh_token > 0

\* A token request that presents a code after a 200 was answered for it,
\* and whose own upstream calls are all answered, gets invalid_grant.
C3_LaterRedemptionRefused ==
  (lastResponse # None /\ IsCodeGrant(Last) /\ Last.prior /\ Last.failed = {})
    => InvalidGrant(Last)

\* C3: the first redemption of a fresh code with matching client_id,
\* redirect_uri and verifier returns 200 with a token set, expires_in = 3600;
\* every later token request with the same code and verifier gets
\* invalid_grant, whatever requests happen in between.
C3_SequentialSingleUse == C3_FirstRedemptionSucceeds /\ C3_LaterRedemptionRefused

\* A successful rotation returns a refresh token other than the presented one.
C4_RotationReturnsNewToken ==
  (lastResponse # None /\ IsRefreshGrant(Last) /\ HasTokens(Last))
    => Last.res[1].body[1].refresh_token # Last.p.refresh_token

\* A request that presents a refresh token after a 200 was answered for it,
\* and whose own upstream calls are all answered, gets invalid_grant.
C4_OldTokenRefused ==
  (lastResponse # None /\ IsRefreshGrant(Last) /\ Last.prior /\ Last.failed = {})
    => InvalidGrant(Last)

\* A refresh token not presented before is redeemable.
C4_NewTokenRedeemable ==
  (lastResponse # None /\ IsRefreshGrant(Last) /\ ~Last.prior /\ FoundFresh(Last)
     /\ Last.failed = {})
    => HasTokens(Last)

\* C4: a successful rotation returns a refresh token that differs from the
\* presented one, every later request presenting the old token gets
\* invalid_grant, and the newly returned token is itself redeemable once.
C4_SequentialRotation ==
  C4_RotationReturnsNewToken /\ C4_OldTokenRefused /\ C4_NewTokenRedeemable

\* The last answered request read an unused code and found its expires_at
\* earlier than the clock.
ExpiredCodePresented ==
  /\ lastResponse # None /\ IsCodeGrant(Last) /\ Last.rec # None
  /\ Last.rec[1].expires_at < Last.at

\* The refusal alone: such a request gets invalid_grant and no tokens,
\* whatever else it presents.
C5_ExpiredCodeRefused == ExpiredCodePresented => InvalidGrant(Last)

\* C5: a token request for an unused code whose expires_at is earlier than
\* the current time gets invalid_grant and no tokens, whatever else it
\* presents, and leaves the code marked used in the store: no row of it is
\* left with used = false.
C5_ExpiredCodeRefusedAndUsed ==
  ExpiredCodePresented
    => /\ InvalidGrant(Last)
       /\ Last.p.code \in DOMAIN codes => codes[Last.p.code].used

\* The request carries every parameter the authorization_code grant requires.
WellFormedCodeRequest(run) ==
  /\ IsCodeGrant(run)
  /\ run.p.code # 0
  /\ run.p.redirect_uri # ""
  /\ run.p.client_id # ""
  /\ run.p.code_verifier # <<>>

\* C6: a token request that presents a stored code with a redirect_uri other
\* than the one stored on the code gets invalid_grant and no tokens, whatever
\* the client and however valid its other parameters.
C6_RedirectMismatchRefused ==
  (/\ lastResponse # None
   /\ WellFormedCodeRequest(Last)
   /\ Last.p.code \in DOMAIN minted
   /\ minted[Last.p.code].redirect_uri # Last.p.redirect_uri)
    => InvalidGrant(Last)

C6_Witness ==
  /\ lastResponse # None
  /\ WellFormedCodeRequest(Last)
  /\ Last.rec # None
  /\ Last.rec[1].client_id = "conf" /\ Last.p.client_id = "conf"
  /\ Last.p.client_secret = SecretConf
  /\ Last.p.code_verifier = VerifierA /\ Last.rec[1].code_challenge = ChallengeA
  /\ Last.rec[1].redirect_uri = RedirApp /\ Last.p.redirect_uri = RedirAlt
  /\ InvalidGrant(Last)
  /\ Last.res[1].error_description = "redirect_uri does not match authorization code"

\* The S256 transform of the presented verifier is the stored challenge.
TransformMatches(verifier, challenge) == generateCodeChallenge(verifier) = challenge

\* The authorization_code grant refuses, with invalid_grant and status 400,
\* a verifier that does not match, a code stored without a challenge and a
\* code stored with method 'plain'.
C7_Refusals ==
  (/\ lastResponse # None
   /\ WellFormedCodeRequest(Last)
   /\ Last.p.code \in DOMAIN minted
   /\ \/ minted[Last.p.code].code_challenge = <<>>
      \/ minted[Last.p.code].code_challenge_method = "plain"
      \/ ~TransformMatches(Last.p.code_verifier, minted[Last.p.code].code_challenge))
    => InvalidGrant(Last)

C7_IssuedOnlyForStoredS256 ==
  (lastResponse # None /\ IsCodeGrant(Last) /\ HasTokens(Last))
    => /\ TransformMatches(Last.p.code_verifier, Last.rec[1].code_challenge)
       /\ Last.rec[1].code_challenge_method = "S256"

C7_IssuedOnlyForS256OrUnset ==
  (lastResponse # None /\ IsCodeGrant(Last) /\ HasTokens(Last))
    => /\ TransformMatches(Last.p.code_verifier, Last.rec[1].code_challenge)
       /\ Last.rec[1].code_challenge_method \in {"S256", Null}

\* C7 as stated: tokens are issued by the authorization_code grant only if
\* the verifier's S256 transform equals the stored challenge and the stored
\* method is S256; a non-matching verifier, a missing challenge and method
\* 'plain' get invalid_grant with status 400 and no tokens.
C7_PkceAsStated == C7_IssuedOnlyForStoredS256 /\ C7_Refusals

\* C7, amended: tokens are issued only if the verifier's S256 transform
\* equals the stored challenge and the stored method is S256 or not set (a
\* code stored without a method is verified as S256); a non-matching
\* verifier, a missing challenge and method 'plain' get invalid_grant with
\* status 400 and no tokens.
C7_Pkce == C7_IssuedOnlyForS256OrUnset /\ C7_Refusals

C7_Witness ==
  /\ lastResponse # None /\ IsCodeGrant(Last) /\ HasTokens(Last)
  /\ Last.rec[1].code_challenge_method = Null
  /\ Last.rec[1].code_challenge = ChallengeA
  /\ Last.p.code_verifier = VerifierA

\* Everything but the client's authentication is valid: the credential was
\* found, belongs to the named client and, for a code, is presented with
\* its redirect_uri and a matching verifier.
AllElseValid(run) ==
  /\ run.rec # None
  /\ FoundFresh(run)
  /\ run.rec[1].client_id = run.p.client_id
  /\ IF IsCodeGrant(run)
     THEN /\ WellFormedCodeRequest(run)
          /\ run.rec[1].redirect_uri = run.p.redirect_uri
          /\ run.rec[1].code_challenge # <<>>
          /\ run.rec[1].code_challenge_method # "plain"
          /\ TransformMatches(run.p.code_verifier, run.rec[1].code_challenge)
     ELSE IsRefreshGrant(run) /\ run.p.refresh_token # 0

Registered(clientId) == CHOOSE c \in OAuthClients : c.client_id = clientId

InvalidClient(run) ==
  run.res[1].error = "invalid_client" /\ run.res[1].status = 400 /\ run.res[1].body = None

\* C8: in both grants, with everything else valid, a confidential client
\* gets invalid_client without a client_secret and with one whose hash is not
\* the stored hash, and a token set with the right one; a public client gets
\* a token set whatever secret it sends or omits.
C8_ClientAuthentication ==
  (lastResponse # None /\ AllElseValid(Last))
    => LET client == Registered(Last.p.client_id)
           secret == Last.p.client_secret
       IN  IF client.is_confidential
           THEN /\ secret = "" => InvalidClient(Last)
                /\ (secret # "" /\ hashClientSecret(secret) # client.client_secret_hash)
                     => InvalidClient(Last)
                /\ (hashClientSecret(secret) = client.client_secret_hash
                      /\ Last.failed = {})
                     => HasTokens(Last)
           ELSE Last.failed = {} => HasTokens(Last)

C8_Witness ==
  /\ lastResponse # None /\ AllElseValid(Last)
  /\ IsRefreshGrant(Last)
  /\ Last.p.client_id = "conf"
  /\ Last.p.client_secret = "wrong"
  /\ InvalidClient(Last)
  /\ \E g \in grants : g.cred[1] = "code"

\* The user claims last built, and the scope they were built for.
ClaimsBuilt ==
  /\ lastClaims # None
  /\ lastClaims[1].op = "userinfo" => lastClaims[1].response.status = 200
  /\ lastClaims[1].op = "generateTokens" => lastClaims[1].tokens # None
BuiltClaims ==
  IF lastClaims[1].op = "userinfo" THEN lastClaims[1].response.claims[1]
  ELSE lastClaims[1].tokens[1].id_token.claims
BuiltScope ==
  IF lastClaims[1].op = "userinfo"
  THEN IF "scope" \in DOMAIN lastClaims[1].request.token[1].claims
       THEN lastClaims[1].request.token[1].claims.scope ELSE <<"">>
  ELSE lastClaims[1].scope

\* C9: the ID token claims and the userinfo response carry name and picture
\* only under scope 'profile', email only under 'email', wallet_address and
\* camly_balance only under 'wallet'; scope 'openid profile' never yields
\* email or wallet_address.
C9_ScopeGatedClaims ==
  ClaimsBuilt =>
    LET keys == DOMAIN BuiltClaims
        granted == Range(BuiltScope)
    IN  /\ keys \cap {"name", "picture"} # {} => "profile" \in granted
        /\ keys \cap {"email", "email_verified"} # {} => "email" \in granted
        /\ keys \cap {"wallet_address", "camly_balance"} # {} => "wallet" \in granted
        /\ BuiltScope = <<"openid", "profile">>
             => keys \cap {"email", "wallet_address"} = {}

C9_Witness ==
  /\ ClaimsBuilt
  /\ lastClaims[1].op = "userinfo"
  /\ BuiltScope = <<"openid", "profile">>
  /\ BuiltClaims["sub"] = "alice"
  /\ DOMAIN BuiltClaims = {"sub", "name", "picture"}

\* GET authorize's checks in order, each with the error it reports;
\* missingType is the error for an absent response_type.
AuthorizeChecks(q, missingType) ==
  << [ok |-> q.response_type # "", error |-> missingType],
     [ok |-> q.response_type = "code", error |-> "unsupported_response_type"],
     [ok |-> q.client_id # "", error |-> "invalid_request"],
     [ok |-> q.redirect_uri # "", error |-> "invalid_request"],
     [ok |-> q.state # "", error |-> "invalid_request"],
     [ok |-> q.code_challenge # <<>>, error |-> "invalid_request"],
     [ok |-> q.code_challenge_method \in {"", "S256"}, error |-> "invalid_request"],
     [ok |-> /\ Len(q.code_challenge) = 43
             /\ Range(q.code_challenge) \subseteq Range(B64Alphabet),
      error |-> "invalid_request"],
     [ok |-> \E c \in OAuthClients : c.client_id = q.client_id /\ c.is_active,
      error |-> "invalid_client"],
     [ok |-> \E c \in OAuthClients :
               c.client_id = q.client_id /\ c.is_active /\ q.redirect_uri \in c.redirect_uris,
      error |-> "invalid_request"] >>

FirstFailing(checks) ==
  LET failing == {i \in DOMAIN checks : ~checks[i].ok}
  IN  IF failing = {} THEN 0 ELSE CHOOSE i \in failing : \A j \in failing : i <= j

ReportsFirstFailing(missingType) ==
  (lastAuthorize # None /\ lastAuthorize[1].okClient)
    => LET checks == AuthorizeChecks(lastAuthorize[1].q, missingType)
           i == FirstFailing(checks)
           response == lastAuthorize[1].response
       IN  IF i = 0 THEN response.status = 302
           ELSE /\ response.status = 400
                /\ response.error = checks[i].error
                /\ response.redirect = None

\* C10 as stated: GET authorize reports the error of the first failing check
\* in the order response_type present and 'code' (else
\* unsupported_response_type), client_id, redirect_uri, state, code_challenge
\* present, code_challenge_method absent or S256, code_challenge of 43
\* base64url characters (each else invalid_request), client active (else
\* invalid_client), redirect_uri registered (else invalid_request).
C10_OrderAsStated == ReportsFirstFailing("unsupported_response_type")

\* C10, amended: the same order, with the first check split in two:
\* response_type present (else invalid_request), then response_type exactly
\* 'code' (else unsupported_response_type).
C10_ValidationOrder == ReportsFirstFailing("invalid_request")

C10_Witness ==
  /\ lastAuthorize # None /\ lastAuthorize[1].okClient
  /\ lastAuthorize[1].q =
       [NoQuery EXCEPT !.client_id = "pub", !.redirect_uri = RedirApp, !.scope = ScopeAll,
                       !.state = "xyz", !.code_challenge = ChallengeA,
                       !.code_challenge_method = "S256"]
  /\ lastAuthorize[1].response.status = 400
  /\ lastAuthorize[1].response.error = "invalid_request"

\* The redirect_uri is registered for the active client the query names.
RegisteredFor(clientId, redirectUri) ==
  \E c \in OAuthClients :
    c.client_id = clientId /\ c.is_active /\ redirectUri \in c.redirect_uris

\* The requested scopes ('openid' when none is requested) that are supported.
SupportedRequested(q) ==
  SelectSeq(IF q.scope = <<>> THEN <<"openid">> ELSE q.scope,
            LAMBDA s : s \in {"openid", "profile", "email", "wallet"})

\* C11: GET authorize redirects to a redirect_uri only when it is registered
\* for the active client named; every failure of the parameter, client and
\* redirect_uri checks is a direct JSON error; the only error sent by
\* redirect is invalid_scope, for a request whose supported scopes are empty,
\* to the verified redirect_uri with the request's state.
C11_ErrorsNeverRedirectUnverified ==
  lastAuthorize # None =>
    LET q == lastAuthorize[1].q
        response == lastAuthorize[1].response
        checks == AuthorizeChecks(q, "invalid_request")
        passes == FirstFailing(checks) = 0 /\ lastAuthorize[1].okClient
    IN  /\ ~passes => /\ response.redirect = None
                      /\ response.status = 400
                      /\ response.error # ""
        /\ response.redirect # None =>
             LET target == response.redirect[1]
             IN  /\ RegisteredFor(q.client_id, q.redirect_uri)
                 /\ IF SupportedRequested(q) = <<>>
                    THEN /\ target.base = q.redirect_uri
                         /\ target.params.error = "invalid_scope"
                         /\ target.params.state = q.state
                    ELSE /\ target.base = ConsentUrl
                         /\ "error" \notin DOMAIN target.params
                         /\ target.params.redirect_uri = q.redirect_uri

C11_Witness ==
  /\ lastAuthorize # None
  /\ lastAuthorize[1].q.client_id = "pub"
  /\ lastAuthorize[1].q.scope = ScopeAdmin
  /\ lastAuthorize[1].q.state = "xyz"
  /\ lastAuthorize[1].response.status = 302
  /\ lastAuthorize[1].response.redirect[1].base = RedirApp
  /\ lastAuthorize[1].response.redirect[1].params.error = "invalid_scope"
  /\ lastAuthorize[1].response.redirect[1].params.state = "xyz"

\* The code rows a step adds to the store.
PersistedCodes == DOMAIN codes' \ DOMAIN codes

\* C12: a step persists an authorization code only as the callback's, for an
\* approved body whose client_id names an active client and whose
\* redirect_uri is one of that client's registered URIs; the row has
\* used = false, expiry = issuance + 10 minutes and user_id = the caller, and
\* the response's redirect target is that redirect_uri with the new code and
\* the body's state.  A response carries a code only if its row was
\* persisted; when the insert fails the response is server_error with no
\* redirect target.
C12_CallbackPersistsVerified ==
  [][ LET cb == lastCallback'[1]
      IN  /\ \A c \in PersistedCodes :
               /\ pending' # pending
               /\ cb.body.approved
               /\ RegisteredFor(cb.body.client_id, cb.body.redirect_uri)
               /\ codes'[c].used = FALSE
               /\ codes'[c].expires_at = cb.at + 600
               /\ codes'[c].user_id = cb.user
               /\ codes'[c].client_id = cb.body.client_id
               /\ codes'[c].redirect_uri = cb.body.redirect_uri
               /\ cb.response.status = 200
               /\ cb.response.redirect =
                    Some([base |-> cb.body.redirect_uri, code |-> c, error |-> "",
                          state |-> cb.body.state])
          /\ (lastCallback' # lastCallback /\ cb.response.redirect # None
                /\ cb.response.redirect[1].code # 0)
               => cb.response.redirect[1].code \in PersistedCodes
          /\ (pending' # pending /\ pending' \subseteq pending /\ ~cb.okStore)
               => /\ cb.body.approved
                  /\ cb.response.status = 500
                  /\ cb.response.error = "server_error"
                  /\ cb.response.redirect = None
                  /\ codes' = codes ]_vars

C12_Witness ==
  /\ lastCallback # None
  /\ lastCallback[1].user = "bob"
  /\ lastCallback[1].at > 0
  /\ lastCallback[1].response.redirect # None
  /\ lastCallback[1].response.redirect[1].code \in DOMAIN codes
  /\ codes[lastCallback[1].response.redirect[1].code].user_id = "bob"
  /\ codes[lastCallback[1].response.redirect[1].code].expires_at = lastCallback[1].at + 600
  /\ ~codes[lastCallback[1].response.redirect[1].code].used
  /\ Cardinality(DOMAIN codes) >= 2

\* C13: the callback with approved = false answers status 200 with a
\* redirect descriptor on the body's redirect_uri carrying
\* error=access_denied and the body's state, and the step changes neither
\* the authorization code store nor the refresh token store.
C13_DenialLeavesStores ==
  [][ (lastCallback' # lastCallback /\ ~lastCallback'[1].body.approved)
        => /\ lastCallback'[1].response.status = 200
           /\ lastCallback'[1].response.redirect =
                Some([base |-> lastCallback'[1].body.redirect_uri, code |-> 0,
                      error |-> "access_denied", state |-> lastCallback'[1].body.state])
           /\ codes' = codes
           /\ refreshTokens' = refreshTokens ]_vars

C13_Witness ==
  /\ lastCallback # None
  /\ ~lastCallback[1].body.approved
  /\ lastCallback[1].body.client_id = "pub"
  /\ lastCallback[1].response.status = 200
  /\ lastCallback[1].response.redirect[1].error = "access_denied"
  /\ \E c \in DOMAIN codes : codes[c].used
  /\ DOMAIN refreshTokens # {}

\* The response the token endpoint gives the same request when the
\* credential it presents does not exist.
ResponseForUnknownCredential(run) ==
  LET p == IF IsCodeGrant(run) THEN [run.p EXCEPT !.code = NoSuchCredential]
           ELSE [run.p EXCEPT !.refresh_token = NoSuchCredential]
  IN  tokenLookup([IdleSlot EXCEPT !.p = p], TRUE).res[1]

\* C14: a token request whose code (refresh token) is used (revoked) or
\* expired gets the response, in status, error and error_description, that
\* the same request gets for a code (refresh token) that does not exist.
C14_ConditionsIndistinguishable ==
  (/\ lastResponse # None
   /\ IsCodeGrant(Last) \/ IsRefreshGrant(Last)
   /\ Last.failed = {}
   /\ Last.rec = None \/ Last.rec[1].expires_at < Last.at)
    => /\ Last.res[1].status = ResponseForUnknownCredential(Last).status
       /\ Last.res[1].error = ResponseForUnknownCredential(Last).error
       /\ Last.res[1].error_description
            = ResponseForUnknownCredential(Last).error_description

\* C15: a token request during which a store or Identity Store call was
\* answered with a non-success response (code lookup, refresh-token lookup,
\* client lookup, mark-used, revoke, refresh-token insert) gets server_error
\* with status 500.
C15_UpstreamFailureIsServerError ==
  (lastResponse # None /\ Last.failed # {})
    => /\ Last.res[1].status = 500
       /\ Last.res[1].error = "server_error"

\* C16: the userinfo endpoint answers 200 only to a bearer token signed as
\* an access token (typ at+jwt); an ID token (typ JWT) of the same issuer and
\* key gets 401 invalid_token.
C16_IdTokenNotAccepted ==
  (lastClaims # None /\ lastClaims[1].op = "userinfo"
     /\ lastClaims[1].request.scheme = "Bearer" /\ lastClaims[1].request.token # None)
    => LET token == lastClaims[1].request.token[1]
           response == lastClaims[1].response
       IN  /\ response.status = 200 => token.typ = "at+jwt"
           /\ token.typ = "JWT" => /\ response.status = 401
                                   /\ response.error = "invalid_token"

\* The refresh token values generated so far.
IssuedRefreshTokens == 1..(nextToken - 1)

\* The value is a raw refresh token (compared as text: a digest and a raw
\* value are values of different kinds).
IsRawToken(v) == ToString(v) \in {ToString(t) : t \in IssuedRefreshTokens}

\* The runs that are being served or were last answered.
Runs == {slots[r] : r \in Slots} \cup (IF lastResponse = None THEN {} ELSE {Last})

\* C17: the refresh token store is keyed by the hash of an issued refresh
\* token and holds no raw value; each raw value whose record was created is
\* in exactly one token response; a lookup finds a record only for a
\* presented value whose hash is a stored token_hash, and the record it finds
\* is unrevoked.
C17_OnlyHashesStored ==
  /\ \A h \in DOMAIN refreshTokens :
       /\ \E t \in IssuedRefreshTokens : h = hashToken(t)
       /\ ~IsRawToken(h)
       /\ DOMAIN refreshTokens[h] = {"user_id", "client_id", "scope", "expires_at", "revoked"}
       /\ \A f \in DOMAIN refreshTokens[h] : ~IsRawToken(refreshTokens[h][f])
  /\ \A t \in IssuedRefreshTokens :
       IF hashToken(t) \in DOMAIN refreshTokens
       THEN Cardinality({g \in grants : g.token = t}) = 1
       ELSE {g \in grants : g.token = t} = {}
  /\ \A run \in Runs :
       (IsRefreshGrant(run) /\ run.rec # None)
         => /\ hashToken(run.p.refresh_token) \in DOMAIN refreshTokens
            /\ ~run.rec[1].revoked
            /\ run.rec[1] = [refreshTokens[hashToken(run.p.refresh_token)]
                               EXCEPT !.revoked = FALSE]

C17_Witness ==
  /\ lastResponse # None /\ IsRefreshGrant(Last) /\ HasTokens(Last)
  /\ Last.rec # None
  /\ refreshTokens[hashToken(Last.p.refresh_token)].revoked
  /\ hashToken(Last.res[1].body[1].refresh_token) \in DOMAIN refreshTokens
  /\ Cardinality(grants) = 2

\* A verifier of 43 to 128 characters of [A-Za-z0-9-._~].
AllowedVerifier(v) ==
  /\ Len(v) \in 43..128
  /\ \A i \in 1..Len(v) :
       v[i] \in Upper \cup Lower \cup Digit \cup {"-", ".", "_", "~"}

\* Two strings of one length that differ in exactly one character.
OneCharacterApart(a, b) ==
  /\ Len(a) = Len(b)
  /\ Cardinality({i \in 1..Len(a) : a[i] # b[i]}) = 1

\* C18: verifyPKCE(v, base64url(sha256(v)), 'S256') is true for every
\* verifier v of 43 to 128 allowed characters; it is false for a verifier or
\* a challenge one character apart from such a pair, for a verifier outside
\* the length and character rule and for every method other than 'S256'.
C18_VerifyPkce ==
  lastPkce # None =>
    LET v == lastPkce[1].codeVerifier
        c == lastPkce[1].codeChallenge
        m == lastPkce[1].method
        result == lastPkce[1].result
    IN  /\ (AllowedVerifier(v) /\ c = base64UrlEncode(sha256(v)) /\ m = "S256") => result
        /\ (\E w \in PkceVerifiers :
              /\ AllowedVerifier(w)
              /\ \/ OneCharacterApart(v, w) /\ c = base64UrlEncode(sha256(w))
                 \/ v = w /\ OneCharacterApart(c, base64UrlEncode(sha256(w))))
             => ~result
        /\ ~AllowedVerifier(v) => ~result
        /\ m # "S256" => ~result

C18_Witness ==
  /\ lastPkce # None
  /\ lastPkce[1].codeVerifier = VerifierMixed
  /\ lastPkce[1].codeChallenge = ChallengeMutatedAt(generateCodeChallenge(VerifierMixed), ChallengeLen)
  /\ lastPkce[1].method = "S256"
  /\ ~lastPkce[1].result

\* The grant a token response came from: the code as the callback stored it,
\* or the refresh-token record that was presented.
GrantSource(run) ==
  IF IsCodeGrant(run) THEN minted[run.p.code] ELSE run.rec[1]

\* C19: a token set's access and ID tokens have the subject, client and scope
\* of the grant it came from (the code as consented to, or the presented
\* refresh-token record); the ID token carries the code's nonce when one was
\* stored and none on refresh; the new refresh-token record has the same
\* user, client and scope.
C19_TokensCarryGrantBinding ==
  (lastResponse # None /\ HasTokens(Last))
    => LET tokens == Last.res[1].body[1]
           access == tokens.access_token.claims
           id == tokens.id_token.claims
           source == GrantSource(Last)
           record == refreshTokens[hashToken(tokens.refresh_token)]
       IN  /\ access.sub = source.user_id /\ id["sub"] = source.user_id
           /\ access.aud = source.client_id /\ access.client_id = source.client_id
           /\ id["aud"] = source.client_id
           /\ access.scope = source.scope /\ tokens.scope = source.scope
           /\ tokens.access_token.typ = "at+jwt" /\ tokens.id_token.typ = "JWT"
           /\ IF IsCodeGrant(Last) /\ source.nonce # Null
              THEN "nonce" \in DOMAIN id /\ id["nonce"] = source.nonce
              ELSE "nonce" \notin DOMAIN id
           /\ record.user_id = source.user_id
           /\ record.client_id = source.client_id
           /\ record.scope = source.scope

C19_Witness ==
  /\ lastResponse # None /\ HasTokens(Last) /\ IsRefreshGrant(Last)
  /\ Last.rec[1].user_id = "bob"
  /\ Last.rec[1].scope = ScopeOpenid
  /\ Last.res[1].body[1].access_token.claims.sub = "bob"
  /\ "nonce" \notin DOMAIN Last.res[1].body[1].id_token.claims
  /\ refreshTokens[hashToken(Last.res[1].body[1].refresh_token)].user_id = "bob"

\* The last answered request found the code it presents and was refused on
\* the code's binding or the client's authentication, with every upstream
\* call answered; no request is being served.
RefusedAfterFinding ==
  /\ lastResponse # None /\ IsCodeGrant(Last)
  /\ Last.rec # None
  /\ Last.res[1].status = 400
  /\ Last.failed = {}
  /\ \A r \in Slots : slots[r].pc = "idle"

\* The client named by the run authenticates: it is active and, when
\* confidential, the presented secret hashes to the stored hash.
ClientAuthenticates(run) ==
  LET client == Registered(run.p.client_id)
  IN  /\ client.is_active
      /\ client.is_confidential
           => hashClientSecret(run.p.client_secret) = client.client_secret_hash

\* C20 as stated: after a redemption attempt that finds the code and fails
\* on client_id mismatch, redirect_uri mismatch, PKCE failure or client
\* authentication, the code is used.
C20_FailedAttemptBurnsCode ==
  RefusedAfterFinding => codes[Last.p.code].used

\* After such an attempt the code is still unused.
C20_FailedAttemptLeavesCodeUnused ==
  RefusedAfterFinding => ~codes[Last.p.code].used

\* A step sets used = true on a code only for a request that found it and
\* passed the client_id, redirect_uri, PKCE and client authentication checks.
C20_MarkedOnlyAfterChecks ==
  \A c \in DOMAIN codes :
    (~codes[c].used /\ c \in DOMAIN codes' /\ codes'[c].used)
      => \E r \in Slots :
           /\ slots[r].pc = "markUsed"
           /\ slots[r].p.code = c
           /\ AllElseValid(slots[r])
           /\ ClientAuthenticates(slots[r])

\* C20, amended: an unexpired authorization code is mutated to used = true
\* only by a token request that finds it and passes the client_id,
\* redirect_uri, PKCE and client authentication checks; a redemption attempt
\* that fails one of them leaves the code unused, so that a later request can
\* still redeem it.
C20_UsedOnlyByValidRedemption ==
  []C20_FailedAttemptLeavesCodeUnused /\ [][C20_MarkedOnlyAfterChecks]_vars

C20_Witness ==
  /\ RefusedAfterFinding
  /\ Last.res[1].error_description = "PKCE verification failed"
  /\ Last.p.code \in DOMAIN codes
  /\ ~codes[Last.p.code].used
  /\ nreq = 2

\* The authorization_code request fails a validation step: a required
\* parameter is missing, or it presents a stored code with another client_id
\* or redirect_uri, with a verifier that does not verify against the code's
\* challenge, or without the secret of the confidential client it names.
FailsValidation(run) ==
  \/ ~WellFormedCodeRequest(run)
  \/ /\ run.p.code \in DOMAIN minted
     /\ \/ minted[run.p.code].client_id # run.p.client_id
        \/ minted[run.p.code].redirect_uri # run.p.redirect_uri
        \/ minted[run.p.code].code_challenge = <<>>
        \/ minted[run.p.code].code_challenge_method = "plain"
        \/ ~AllowedVerifier(run.p.code_verifier)
        \/ ~TransformMatches(run.p.code_verifier, minted[run.p.code].code_challenge)
        \/ ~ClientAuthenticates(run)

\* C21: the step that answers an authorization_code request failing a
\* validation step (missing parameter, client_id or redirect_uri mismatch,
\* PKCE failure, unknown client, missing or wrong client_secret) issues no
\* tokens and leaves the authorization code store and the refresh token
\* store as they were: an unused code stays unused.
C21_FailedValidationWritesNothing ==
  [][ (lastResponse' # lastResponse /\ IsCodeGrant(lastResponse'[1])
         /\ FailsValidation(lastResponse'[1]))
        => /\ codes' = codes
           /\ refreshTokens' = refreshTokens
           /\ ~HasTokens(lastResponse'[1])
           /\ lastResponse'[1].res[1].status = 400 ]_vars

C21_Witness ==
  /\ lastResponse # None /\ IsCodeGrant(Last)
  /\ Last.rec # None
  /\ Last.res[1].error_description = "Invalid client_secret"
  /\ Last.p.code_verifier = VerifierA
  /\ ~codes[Last.p.code].used
  /\ DOMAIN refreshTokens = {}

\* The last answered request consumed its credential (its mark-used or
\* revoke write was applied) and then failed to store the new refresh token.
FailedAfterConsuming ==
  /\ lastResponse # None
  /\ Last.res[1].status = 500
  /\ IF IsCodeGrant(Last) THEN "markCodeAsUsed" \notin Last.failed
     ELSE "revokeRefreshToken" \notin Last.failed

\* The credential's row is used (revoked), or gone.
Consumed(p) ==
  IF p.grant_type = "authorization_code"
  THEN p.code \in DOMAIN codes => codes[p.code].used
  ELSE hashToken(p.refresh_token) \in DOMAIN refreshTokens
         => refreshTokens[hashToken(p.refresh_token)].revoked

\* C22: when storing the new refresh token fails after the code was marked
\* used (the presented refresh token revoked), the response is server_error
\* without tokens, the credential stays consumed, and no request that
\* arrives afterwards with the same credential gets past the lookup.
C22_ConsumedStaysConsumed ==
  /\ [](FailedAfterConsuming
          => /\ Last.res[1].error = "server_error"
             /\ Last.res[1].body = None
             /\ Consumed(Last.p))
  /\ [][ FailedAfterConsuming
           => \A r \in Slots :
                (slots[r].pc = "idle" /\ slots'[r].pc # "idle")
                  => Credential(slots'[r].p) # Credential(Last.p) ]_vars

C22_Witness ==
  /\ FailedAfterConsuming
  /\ IsRefreshGrant(Last)
  /\ refreshTokens[hashToken(Last.p.refresh_token)].revoked
  /\ \E c \in DOMAIN codes : codes[c].used
  /\ Cardinality(grants) = 1


\* C23: whenever the code grant answers with a token set, the store records
\* the code as used (or the row is gone).
C23_TokensImplyCodeUsed ==
  (lastResponse # None /\ IsCodeGrant(Last) /\ HasTokens(Last))
    => (Last.p.code \in DOMAIN codes => codes[Last.p.code].used)


\* The run of the token request that arrives in this step: it has its answer
\* or waits for its first store write.
Arriving == IF slots'[1].pc # "idle" THEN slots'[1] ELSE lastResponse'[1]

\* The run was refused with this error, status 400, before any write.
RefusedWith(run, error) ==
  /\ run.pc = "done"
  /\ run.res[1].error = error
  /\ run.res[1].status = 400
  /\ run.res[1].body = None

\* The verifier verifies against the stored challenge and method.
PkcePasses(p, row) ==
  /\ row.code_challenge # <<>>
  /\ ~Truthy(row.code_challenge_method) \/ row.code_challenge_method = "S256"
  /\ AllowedVerifier(p.code_verifier)
  /\ TransformMatches(p.code_verifier, row.code_challenge)

\* The checks of the code grant on the row it read, in the order the claim
\* gives, for the run this step resumes.
ChecksInOrder(run, row) ==
  LET p == run.p
  IN  IF row.expires_at < now THEN run.pc = "markExpired"
      ELSE IF row.client_id # p.client_id THEN RefusedWith(run, "invalid_grant")
      ELSE IF row.redirect_uri # p.redirect_uri THEN RefusedWith(run, "invalid_grant")
      ELSE IF ~PkcePasses(p, row) THEN RefusedWith(run, "invalid_grant")
      ELSE IF ~ClientAuthenticates(run) THEN RefusedWith(run, "invalid_client")
      ELSE run.pc = "markUsed"

\* C24: the code grant reports the first failing step in the order required
\* parameters (invalid_request), code found and unused, code not expired,
\* client_id, redirect_uri, PKCE (all invalid_grant), client resolution and
\* secret (invalid_client); only a request that passes them all goes on to
\* mark the code used.
C24_FirstFailingStep ==
  [][ (slots[1].pc = "idle" /\ nreq' # nreq /\ nextCode' = nextCode)
        => LET run == Arriving
               p == run.p
           IN  IF ~WellFormedCodeRequest(run) THEN RefusedWith(run, "invalid_request")
               ELSE IF p.code \notin DOMAIN codes \/ codes[p.code].used
                 THEN RefusedWith(run, "invalid_grant")
               ELSE run.pc = "check" /\ run.rec = Some(codes[p.code]) ]_vars
    /\ [][ (slots[1].pc = "check" /\ slots'[1].pc # "check")
            => ChecksInOrder(Arriving, slots[1].rec[1]) ]_vars
    /\ [](lastResponse # None /\ Last.res[1].error_description = "Authorization code has expired"
            => RefusedWith(Last, "invalid_grant"))

\* A wrong verifier together with a wrong secret was answered invalid_grant.
C24_Witness ==
  /\ lastResponse # None /\ IsCodeGrant(Last)
  /\ Last.p.client_id = "conf" /\ Last.p.client_secret = "wrong"
  /\ Last.p.code_verifier = VerifierB
  /\ Last.rec # None /\ Last.rec[1].client_id = "conf"
  /\ Last.p.redirect_uri = Last.rec[1].redirect_uri
  /\ Last.res[1].error = "invalid_grant"
  /\ Last.res[1].error_description = "PKCE verification failed"


\* A step keeps every row's expiry, never clears a used or revoked flag, and
\* never brings back a row under a code or hash that existed before.
RowsOnlyAdvance ==
  /\ \A c \in DOMAIN codes \cap DOMAIN codes' :
       /\ codes'[c].expires_at = codes[c].expires_at
       /\ codes[c].used => codes'[c].used
  /\ \A c \in DOMAIN codes' \ DOMAIN codes : c \notin DOMAIN minted
  /\ \A h \in DOMAIN refreshTokens \cap DOMAIN refreshTokens' :
       /\ refreshTokens'[h].expires_at = refreshTokens[h].expires_at
       /\ refreshTokens[h].revoked => refreshTokens'[h].revoked
  /\ \A h \in DOMAIN refreshTokens' \ DOMAIN refreshTokens :
       \A g \in grants : hashToken(g.token) # h

\* A request gets past the lookup only with a row that is not consumed, and
\* tokens come only from requests that got past it.
OnlyUnconsumedRedeemed ==
  /\ \A r \in Slots :
       (slots[r].pc = "idle" /\ slots'[r].pc # "idle")
         => LET p == slots'[r].p
            IN  IF p.grant_type = "authorization_code"
                THEN p.code \in DOMAIN codes /\ ~codes[p.code].used
                ELSE /\ hashToken(p.refresh_token) \in DOMAIN refreshTokens
                     /\ ~refreshTokens[hashToken(p.refresh_token)].revoked
  /\ grants' # grants => \E r \in Slots : slots[r].pc = "insert"

\* C25: over authorize, callback, token and cleanup operations a code's
\* expires_at never changes, used never goes back to false, a refresh
\* token's revoked never goes back to false, and a used (revoked)
\* credential presented again is refused, expired or not.
C25_FlagsNeverReset ==
  [][RowsOnlyAdvance /\ OnlyUnconsumedRedeemed]_vars

\* A code that is used and not expired was presented again and refused.
C25_Witness ==
  /\ lastResponse # None /\ IsCodeGrant(Last)
  /\ Last.rec = None
  /\ Last.res[1].error = "invalid_grant"
  /\ Last.p.code \in DOMAIN codes
  /\ codes[Last.p.code].used /\ ~Expired(codes[Last.p.code])
  /\ \E h \in DOMAIN refreshTokens : refreshTokens[h].revoked


\* C26: for every body and upstream outcome the token endpoint returns a
\* response, a token set or {error, error_description}, with Cache-Control:
\* no-store and Pragma: no-cache; it never throws.
C26_AlwaysAnswers ==
  lastResponse # None
    => /\ Last.res # None
       /\ Last.res[1].headers = NoStore
       /\ \/ Last.res[1].status = 200 /\ Last.res[1].body # None
          \/ /\ Last.res[1].status \in {400, 500}
             /\ Last.res[1].body = None
             /\ Last.res[1].error # "" /\ Last.res[1].error_description # ""


\* C27: every redirect descriptor the consent callback returns, on approval
\* and on denial, is based on a redirect_uri registered for the active client
\* the body names.
C27_RedirectOnlyToRegistered ==
  (lastCallback # None /\ lastCallback[1].response.redirect # None)
    => RegisteredFor(lastCallback[1].body.client_id,
                     lastCallback[1].response.redirect[1].base)


\* C28: the scope stored on a code, and on the refresh-token records and
\* token sets derived from it, holds only openid, profile, email and wallet.
C28_StoredScopeSupported ==
  /\ \A c \in DOMAIN codes :
       Range(codes[c].scope) \subseteq {"openid", "profile", "email", "wallet"}
  /\ \A h \in DOMAIN refreshTokens :
       Range(refreshTokens[h].scope) \subseteq {"openid", "profile", "email", "wallet"}
  /\ (lastResponse # None /\ HasTokens(Last))
       => Range(Last.res[1].body[1].scope) \subseteq {"openid", "profile", "email", "wallet"}


\* The user claims an ID token for this subject and scope carries, given the
\* same profile and email reads.
IdTokenUserClaims(userId, scopes, okProfile, okEmail) ==
  LET email == IF "email" \in Range(scopes) THEN getUserEmail(userId, okEmail) ELSE Null
  IN  DOMAIN idTokenClaims(userId, "pub", scopes, Null,
                           getUserProfile(userId, okProfile), email) \ {"aud", "nonce"}

\* C29: for every verified access token and profile and email record, the
\* user claims in the userinfo response are those of an ID token for the
\* same subject and scope.
C29_UserInfoMatchesIdToken ==
  (/\ lastClaims # None
   /\ lastClaims[1].op = "userinfo"
   /\ lastClaims[1].response.status = 200
   /\ "scope" \in DOMAIN verifyAccessToken(lastClaims[1].request.token[1], TRUE)[1]
   /\ verifyAccessToken(lastClaims[1].request.token[1], TRUE)[1]["scope"] # <<>>)
    => LET payload == verifyAccessToken(lastClaims[1].request.token[1], TRUE)[1]
       IN  DOMAIN lastClaims[1].response.claims[1]
             = IdTokenUserClaims(payload["sub"], payload["scope"],
                                 lastClaims[1].okProfile, lastClaims[1].okEmail)


\* C30: a signing call that starts after clearKeyCache has returned signs
\* with the key imported from the PEM of its own env.
C30_SignsWithOwnKey ==
  \A i \in KeyCalls :
    (/\ keyCalls[i].pc = "done"
     /\ keyCalls[i].fn = "signAccessToken"
     /\ keyCalls[i].clears > 0)
      => keyCalls[i].key = Some(importPKCS8(keyCalls[i].pem))

====
